---- MODULE Spec2Model ----
(***************************************************************************)
(* Model of the scraping routine executor (app/services/scraping_executor) *)
(* together with the custom-action handler of the scraping router and the  *)
(* Power Automate flow invocation it drives.                               *)
(*                                                                         *)
(* Python values are tagged records [k, v]:                                *)
(*   None -> k = "none";  str -> k = "str" (opaque text);                  *)
(*   str inspected by substring tests -> k = "chars" (tuple of characters);*)
(*   int -> "int";  bool -> "bool";  dict -> "dict" (function from keys);  *)
(*   list -> "list" (sequence).                                            *)
(* A dictionary key or dot-path string is represented by the tuple of its  *)
(* dot-separated chunks: "mfa.code" is <<"mfa","code">>, "otp" is          *)
(* <<"otp">>, so key.split(".") is the tuple itself while the key keeps    *)
(* its identity as one dictionary key.                                     *)
(***************************************************************************)
EXTENDS Integers, Sequences, FiniteSets, TLC

\* ------------------------------------------------------------------ bounds
\* longest routine of the general specification
MaxActions == 2
\* longest routine of the context-chaining specification
MaxChain == 3

\* ------------------------------------------------------------ Python values
NoneV == [k |-> "none", v |-> 0]
StrV(s) == [k |-> "str", v |-> s]
CharsV(t) == [k |-> "chars", v |-> t]
IntV(i) == [k |-> "int", v |-> i]
BoolV(b) == [k |-> "bool", v |-> b]
DictV(f) == [k |-> "dict", v |-> f]
ListV(q) == [k |-> "list", v |-> q]
\* a str used as a dictionary key or dot-path, as the tuple of its chunks
KeyV(p) == [k |-> "key", v |-> p]
\* a str holding {{placeholders}}: the sequence of its literal pieces
\* [lit |-> TRUE, text, path |-> <<>>] and placeholders [lit |-> FALSE, text |-> "", path]
TmplV(segs) == [k |-> "tmpl", v |-> segs]
Lit(text) == [lit |-> TRUE, text |-> text, path |-> <<>>]
Ph(path) == [lit |-> FALSE, text |-> "", path |-> path]
EmptyMap == [x \in {} |-> NoneV]
EmptyDict == DictV(EmptyMap)

IsDict(x) == x.k = "dict"
IsList(x) == x.k = "list"
IsStr(x) == x.k \in {"str", "chars", "key", "tmpl"}

\* dict.get(key) with the default NoneV
Get(d, key) == IF IsDict(d) /\ key \in DOMAIN d.v THEN d.v[key] ELSE NoneV

\* Python truthiness of a value
Truthy(x) ==
    CASE x.k = "none" -> FALSE
      [] x.k = "str" -> x.v /= ""
      [] x.k = "chars" -> x.v /= <<>>
      [] x.k = "key" -> x.v /= <<"">>
      [] x.k = "tmpl" -> TRUE
      [] x.k = "int" -> x.v /= 0
      [] x.k = "bool" -> x.v
      [] x.k = "dict" -> DOMAIN x.v /= {}
      [] x.k = "list" -> x.v /= <<>>
      [] OTHER -> TRUE

\* The text of a key, "a.b" for <<"a","b">>
RECURSIVE JoinDots(_)
JoinDots(path) ==
    IF path = <<>> THEN ""
    ELSE IF Len(path) = 1 THEN path[1]
    ELSE path[1] \o "." \o JoinDots(Tail(path))

RECURSIVE CharsToString(_)
CharsToString(t) == IF t = <<>> THEN "" ELSE t[1] \o CharsToString(Tail(t))

\* the text of a templated string
RECURSIVE SegsToString(_)
SegsToString(segs) ==
    IF segs = <<>> THEN ""
    ELSE (IF segs[1].lit THEN segs[1].text ELSE "{{" \o JoinDots(segs[1].path) \o "}}")
         \o SegsToString(Tail(segs))

\* str(value)
PyStr(x) ==
    CASE x.k = "none" -> "None"
      [] x.k = "str" -> x.v
      [] x.k = "chars" -> CharsToString(x.v)
      [] x.k = "key" -> JoinDots(x.v)
      [] x.k = "tmpl" -> SegsToString(x.v)
      [] x.k = "int" -> ToString(x.v)
      [] x.k = "bool" -> IF x.v THEN "True" ELSE "False"
      [] x.k = "dict" -> "{...}"
      [] x.k = "list" -> "[...]"
      [] OTHER -> "?"

\* str.lower() on character tuples
UpperCase == <<"A", "B", "C", "D", "E", "F", "G", "H", "I", "J", "K", "L", "M",
               "N", "O", "P", "Q", "R", "S", "T", "U", "V", "W", "X", "Y", "Z">>
LowerCase == <<"a", "b", "c", "d", "e", "f", "g", "h", "i", "j", "k", "l", "m",
               "n", "o", "p", "q", "r", "s", "t", "u", "v", "w", "x", "y", "z">>
LowerChar(c) ==
    IF \E i \in DOMAIN UpperCase : UpperCase[i] = c
    THEN LowerCase[CHOOSE i \in DOMAIN UpperCase : UpperCase[i] = c]
    ELSE c
Lower(t) == [i \in 1..Len(t) |-> LowerChar(t[i])]

\* "tok in text" on character tuples
Contains(text, tok) ==
    \E i \in 0..(Len(text) - Len(tok)) : SubSeq(text, i + 1, i + Len(tok)) = tok

\* --------------------------------------------------------- context helpers
\* _lookup_context_value: walk the chunks of key through nested dicts only
RECURSIVE LookupFrom(_, _)
LookupFrom(current, chunks) ==
    IF chunks = <<>> THEN current
    ELSE IF chunks[1] = "" THEN NoneV
    ELSE IF IsDict(current) THEN LookupFrom(Get(current, <<chunks[1]>>), Tail(chunks))
    ELSE NoneV
\* variant: the key is used as one flat dictionary key
LookupFlat(context, key) == Get(context, key)

_lookup_context_value(context, key) == LookupFrom(context, key)

\* _merge_context: dict+dict merges recursively, anything else overwrites
RECURSIVE MergeMaps(_, _)
MergeMaps(target, updates) ==
    [key \in (DOMAIN target) \cup (DOMAIN updates) |->
        IF key \notin DOMAIN updates THEN target[key]
        ELSE IF key \in DOMAIN target /\ IsDict(target[key]) /\ IsDict(updates[key])
             THEN DictV(MergeMaps(target[key].v, updates[key].v))
        ELSE updates[key]]
_merge_context(target, updates) == DictV(MergeMaps(target.v, updates.v))

\* ------------------------------------------------------- value resolution
MGet(metadata, name) == Get(metadata, <<name>>)

c_password == <<"p","a","s","s","w","o","r","d">>
c_email == <<"e","m","a","i","l">>
c_pass == <<"p","a","s","s">>
c_pwd == <<"p","w","d">>
c_text == <<"t","e","x","t">>

\* str(x or "").lower() for the textual metadata fields
LoweredText(x) == IF x.k = "chars" THEN Lower(x.v) ELSE <<>>

HeuristicKeys == <<"name", "id", "data-testid", "aria-label", "placeholder">>

\* the for-loop of _resolve_input_value over the five attribute names;
\* the first attribute that hits decides, email test before the token test
RECURSIVE AttributeLoop(_, _, _, _)
AttributeLoop(keys, attributes, attr_type, credentials) ==
    IF keys = <<>> THEN NoneV
    ELSE LET value == Get(attributes, <<keys[1]>>)
             lowered == Lower(value.v)
         IN IF value.k = "chars" /\ Contains(lowered, c_email)
                  /\ attr_type \in {<<>>, c_text, c_email}
            THEN StrV(credentials.email)
            ELSE IF value.k = "chars"
                      /\ (Contains(lowered, c_pass) \/ Contains(lowered, c_pwd))
            THEN StrV(credentials.password)
            ELSE AttributeLoop(Tail(keys), attributes, attr_type, credentials)

\* variant: an explicit input_text is returned before the context is read
ResolveInputTextFirst(action, credentials, context) ==
    IF Truthy(action.input_text) THEN action.input_text
    ELSE IF MGet(action.metadata, "context_key").k = "key"
            /\ _lookup_context_value(context, MGet(action.metadata, "context_key").v).k
                   /= "none"
    THEN StrV(PyStr(_lookup_context_value(context, MGet(action.metadata, "context_key").v)))
    ELSE IF Truthy(MGet(action.metadata, "expects_secret")) THEN StrV(credentials.password)
    ELSE NoneV

\* _resolve_input_value; the result is NoneV or a StrV
_resolve_input_value(action, credentials, context) ==
    LET metadata == action.metadata
        context_key == MGet(metadata, "context_key")
        context_value == IF context_key.k = "key"
                         THEN _lookup_context_value(context, context_key.v)
                         ELSE NoneV
        attributes == IF <<"attributes">> \in DOMAIN metadata.v
                      THEN MGet(metadata, "attributes") ELSE EmptyDict
        label == LoweredText(MGet(metadata, "label"))
        attr_type == LoweredText(Get(attributes, <<"type">>))
        fromAttrs == AttributeLoop(HeuristicKeys, attributes, attr_type, credentials)
        suggested == MGet(metadata, "suggested_value")
    IN IF context_value /= NoneV THEN StrV(PyStr(context_value))
       ELSE IF Truthy(action.input_text) THEN action.input_text
       ELSE IF Truthy(MGet(metadata, "expects_secret")) THEN StrV(credentials.password)
       ELSE IF Contains(label, c_password) THEN StrV(credentials.password)
       ELSE IF Contains(label, c_email) THEN StrV(credentials.email)
       ELSE IF attr_type = c_password THEN StrV(credentials.password)
       ELSE IF fromAttrs /= NoneV THEN fromAttrs
       ELSE IF attr_type = c_email THEN StrV(credentials.email)
       ELSE IF Truthy(suggested) THEN StrV(PyStr(suggested))
       ELSE NoneV

\* _resolve_select_value: the fill resolution, then metadata.selected_option
_resolve_select_value(action, credentials, context) ==
    LET value == _resolve_input_value(action, credentials, context)
        selected == MGet(action.metadata, "selected_option")
    IN IF value /= NoneV THEN value
       ELSE IF IsStr(selected) /\ Truthy(selected) THEN StrV(PyStr(selected))
       ELSE NoneV

\* _resolve_wait_timeout, in milliseconds
DefaultWaitMs == 1000
_resolve_wait_timeout(action) ==
    LET delay == MGet(action.metadata, "delay_seconds")
    IN IF delay.k = "int" /\ delay.v >= 0 THEN delay.v * 1000 ELSE DefaultWaitMs

\* ------------------------------------------------------ router helpers
\* int(chunk) for the index chunks in use; NoneV stands for ValueError
ChunkToInt(chunk) ==
    CASE chunk = "0" -> IntV(0)
      [] chunk = "1" -> IntV(1)
      [] chunk = "2" -> IntV(2)
      [] OTHER -> NoneV

\* the walk shared by _extract_from_path (router) and _lookup (service):
\* dicts by key, lists by integer index, anything else gives None
RECURSIVE WalkPath(_, _)
WalkPath(current, chunks) ==
    IF chunks = <<>> THEN current
    ELSE IF chunks[1] = "" THEN NoneV
    ELSE IF IsDict(current) THEN WalkPath(Get(current, <<chunks[1]>>), Tail(chunks))
    ELSE IF IsList(current)
         THEN LET index == ChunkToInt(chunks[1])
              IN IF index = NoneV THEN NoneV
                 ELSE IF index.v < 0 \/ index.v >= Len(current.v) THEN NoneV
                 ELSE WalkPath(current.v[index.v + 1], Tail(chunks))
    ELSE NoneV
_extract_from_path(data, path) == WalkPath(data, path)
_lookup(data, path) == WalkPath(data, path)

\* _coerce_int: bool -> None, int -> itself, digit string -> its number
_coerce_int(value) ==
    CASE value.k = "bool" -> NoneV
      [] value.k = "int" -> value
      [] value.k = "str" -> ChunkToInt(value.v)
      [] OTHER -> NoneV

_safe_dict(value) == IF IsDict(value) THEN value ELSE EmptyDict

NonEmptyChunks(path) == SelectSeq(path, LAMBDA c : c /= "")

\* _set_nested_value on the map of a dict, for the non-empty chunks of path
RECURSIVE SetNested(_, _, _)
SetNested(map, parts, value) ==
    IF parts = <<>> THEN map
    ELSE IF Len(parts) = 1 THEN (<<parts[1]>> :> value) @@ map
    ELSE LET key == <<parts[1]>>
             existing == IF key \in DOMAIN map /\ IsDict(map[key])
                         THEN map[key].v ELSE EmptyMap
         IN (key :> DictV(SetNested(existing, Tail(parts), value))) @@ map
_set_nested_value(target, path, value) == SetNested(target, NonEmptyChunks(path), value)

\* ------------------------------------------------------ render_template
\* merge neighbouring literal pieces so that a text has one representation
RECURSIVE Normalise(_)
Normalise(segs) ==
    IF Len(segs) < 2 THEN segs
    ELSE IF segs[1].lit /\ segs[2].lit
         THEN Normalise(<<Lit(segs[1].text \o segs[2].text)>> \o Tail(Tail(segs)))
    ELSE <<segs[1]>> \o Normalise(Tail(segs))

\* replacer: the placeholder text stays when the path resolves to None
Replacer(seg, variables) ==
    IF seg.lit THEN seg
    ELSE LET value == _lookup(variables, seg.path)
         IN IF value = NoneV THEN seg ELSE Lit(PyStr(value))

RenderString(template, variables) ==
    LET segs == template.v
    IN IF Len(segs) = 1 /\ ~segs[1].lit
       THEN LET value == _lookup(variables, segs[1].path)
            IN IF value = NoneV THEN template ELSE value
       ELSE LET out == Normalise([i \in 1..Len(segs) |-> Replacer(segs[i], variables)])
            IN IF \A i \in 1..Len(out) : out[i].lit
               THEN StrV(SegsToString(out)) ELSE TmplV(out)

RECURSIVE render_template(_, _)
render_template(template, variables) ==
    CASE template.k = "tmpl" -> RenderString(template, variables)
      [] template.k = "dict" ->
            DictV([key \in DOMAIN template.v |-> render_template(template.v[key], variables)])
      [] template.k = "list" ->
            ListV([i \in 1..Len(template.v) |-> render_template(template.v[i], variables)])
      [] OTHER -> template

\* -------------------------------------------------- Power Automate service
\* exceptions are [cls, msg]; NoExc means nothing was raised
NoExc == [cls |-> "", msg |-> ""]
Exc(cls, msg) == [cls |-> cls, msg |-> msg]

DefaultFlowTimeout == 1800
FailureFlowTimeoutCap == 600
MinTimeout == 1
ErrorStatusFloor == 400

\* the stored flows (power_automate_flows rows): owner and timeout_seconds
FlowTable ==
    (1 :> [user_id |-> 1, timeout_seconds |-> IntV(60)])
    @@ (2 :> [user_id |-> 1, timeout_seconds |-> NoneV])
    @@ (3 :> [user_id |-> 2, timeout_seconds |-> IntV(30)])

\* _get_flow: the flow with this id owned by the user, else LookupError
_get_flow(user_id, flow_id) ==
    IF flow_id \in DOMAIN FlowTable /\ FlowTable[flow_id].user_id = user_id
    THEN [raised |-> NoExc, flow |-> FlowTable[flow_id]]
    ELSE [raised |-> Exc("LookupError", "Flow not found"),
          flow |-> [user_id |-> 0, timeout_seconds |-> NoneV]]

Min(a, b) == IF a < b THEN a ELSE b
Max(a, b) == IF a > b THEN a ELSE b

\* _dispatch_request on what the HTTP client does (outcome):
\*   kind "response": a response with status_code and parsed body
\*   kind "bad_json": a response declared application/json whose body does
\*                    not parse, response.json() raises ValueError
\*   kind "timeout":  httpx.TimeoutException
\*   kind "http_error": another httpx.HTTPError, msg is its str()
_dispatch_request(outcome, wait_for_completion) ==
    CASE outcome.kind = "response" ->
            [raised |-> NoExc, status_code |-> IntV(outcome.status_code),
             body |-> IF wait_for_completion THEN outcome.body ELSE NoneV,
             error |-> NoneV]
      [] outcome.kind = "bad_json" ->
            IF wait_for_completion
            THEN [raised |-> Exc("ValueError", "Expecting value"),
                  status_code |-> NoneV, body |-> NoneV, error |-> NoneV]
            ELSE [raised |-> NoExc, status_code |-> IntV(outcome.status_code),
                  body |-> NoneV, error |-> NoneV]
      [] outcome.kind = "timeout" ->
            [raised |-> NoExc, status_code |-> NoneV, body |-> NoneV,
             error |-> StrV("timeout")]
      [] OTHER ->
            [raised |-> NoExc, status_code |-> NoneV, body |-> NoneV,
             error |-> StrV(outcome.msg)]

NoResult ==
    [flow_id |-> 0, status |-> "", http_status |-> NoneV, response |-> NoneV,
     detail |-> NoneV, failure_flow_triggered |-> FALSE]

\* the status and detail invoke_flow derives from a dispatch
ResultStatus(d) ==
    IF d.error = StrV("timeout") THEN "timeout"
    ELSE IF Truthy(d.error) THEN "error"
    ELSE IF d.status_code /= NoneV /\ d.status_code.v >= ErrorStatusFloor THEN "error"
    ELSE "success"
ResultDetail(d) ==
    IF d.error = StrV("timeout") THEN StrV("Flow execution timed out")
    ELSE IF Truthy(d.error) THEN d.error
    ELSE IF d.status_code /= NoneV /\ d.status_code.v >= ErrorStatusFloor
         THEN StrV("Flow returned status " \o ToString(d.status_code.v))
    ELSE NoneV

\* the timeout invoke_flow settles on, in seconds
FlowTimeout(payload, flow) ==
    LET chosen == IF Truthy(payload.timeout_seconds) THEN payload.timeout_seconds.v
                  ELSE IF Truthy(flow.timeout_seconds) THEN flow.timeout_seconds.v
                  ELSE DefaultFlowTimeout
    IN Max(MinTimeout, Min(chosen, DefaultFlowTimeout))

\* the request invoke_flow sends, with what came of it
Sent(flow_id, payload, timeout, outcome) ==
    <<[flow_id |-> flow_id, timeout |-> timeout,
       wait_for_completion |-> payload.wait_for_completion,
       parameters |-> payload.parameters, outcome |-> outcome]>>

\* the invocation of the failure flow: no waiting, capped timeout
FailurePayload(payload, timeout) ==
    [parameters |-> payload.failure_parameters,
     body_overrides |-> payload.failure_body_overrides,
     query_params |-> payload.failure_query_params,
     wait_for_completion |-> FALSE,
     timeout_seconds |-> IntV(Min(timeout, FailureFlowTimeoutCap)),
     failure_flow_id |-> NoneV,
     failure_parameters |-> EmptyDict,
     failure_body_overrides |-> EmptyDict,
     failure_query_params |-> EmptyDict]

\* the PowerAutomateInvocationResult built at the end of invoke_flow
FlowResult(flow_id, d, failure_triggered) ==
    [flow_id |-> flow_id, status |-> ResultStatus(d), http_status |-> d.status_code,
     response |-> d.body, detail |-> ResultDetail(d),
     failure_flow_triggered |-> failure_triggered]

\* invoke_flow once the failure flow, when triggered, has been invoked
AfterFailureFlow(flow_id, d, sent, inner) ==
    IF inner.raised /= NoExc
    THEN [raised |-> inner.raised, result |-> NoResult,
          dispatches |-> sent \o inner.dispatches]
    ELSE [raised |-> NoExc, result |-> FlowResult(flow_id, d, TRUE),
          dispatches |-> sent \o inner.dispatches]

\* invoke_flow; outs are the outcomes of the HTTP dispatches it makes, in
\* order. Yields [raised, result, dispatches].
RECURSIVE invoke_flow(_, _, _, _, _)
\* variant: the failure flow is invoked whatever the status of the primary
AfterDispatchAnyStatus(user_id, flow_id, payload, _trigger_failure, outs, timeout, d, sent) ==
    IF d.raised /= NoExc
    THEN [raised |-> d.raised, result |-> NoResult, dispatches |-> sent]
    ELSE IF Truthy(payload.failure_flow_id) /\ _trigger_failure
    THEN AfterFailureFlow(flow_id, d, sent,
                          invoke_flow(user_id, payload.failure_flow_id.v,
                                      FailurePayload(payload, timeout), FALSE, Tail(outs)))
    ELSE [raised |-> NoExc, result |-> FlowResult(flow_id, d, FALSE), dispatches |-> sent]

\* invoke_flow after the dispatch d of the primary request
AfterDispatch(user_id, flow_id, payload, _trigger_failure, outs, timeout, d, sent) ==
    IF d.raised /= NoExc
    THEN [raised |-> d.raised, result |-> NoResult, dispatches |-> sent]
    ELSE IF ResultStatus(d) /= "success" /\ Truthy(payload.failure_flow_id)
            /\ _trigger_failure
    THEN AfterFailureFlow(flow_id, d, sent,
                          invoke_flow(user_id, payload.failure_flow_id.v,
                                      FailurePayload(payload, timeout), FALSE, Tail(outs)))
    ELSE [raised |-> NoExc, result |-> FlowResult(flow_id, d, FALSE), dispatches |-> sent]

\* invoke_flow after _get_flow
AfterLookup(user_id, flow_id, payload, _trigger_failure, outs, got, timeout) ==
    IF got.raised /= NoExc
    THEN [raised |-> got.raised, result |-> NoResult, dispatches |-> <<>>]
    ELSE AfterDispatch(user_id, flow_id, payload, _trigger_failure, outs, timeout,
                       _dispatch_request(outs[1], payload.wait_for_completion),
                       Sent(flow_id, payload, timeout, outs[1]))

invoke_flow(user_id, flow_id, payload, _trigger_failure, outs) ==
    AfterLookup(user_id, flow_id, payload, _trigger_failure, outs,
                _get_flow(user_id, flow_id),
                FlowTimeout(payload, _get_flow(user_id, flow_id).flow))

\* ------------------------------------------- router: _handle_custom_action
MaxRequestTimeout == 3600

\* the flow-related reads of the handler on the action's metadata
RenderedField(metadata, name, template_variables) ==
    _safe_dict(render_template(_safe_dict(MGet(metadata, name)), template_variables))

\* context_updates built from the flow response: store_response_as puts
\* the whole response under one key, store_response_fields copies the
\* fields it maps along their target dot-paths
RECURSIVE StoreFields(_, _, _, _)
StoreFields(updates, mapping, sources, response) ==
    IF sources = {} THEN updates
    ELSE LET source_path == CHOOSE p \in sources : TRUE
             target_path == mapping[source_path]
             extracted == _extract_from_path(response, source_path)
             next == IF target_path.k = "key" /\ extracted /= NoneV
                     THEN _set_nested_value(updates, target_path.v, extracted)
                     ELSE updates
         IN StoreFields(next, mapping, sources \ {source_path}, response)

ContextUpdates(metadata, response_payload) ==
    LET store_as == MGet(metadata, "store_response_as")
        stored == IF store_as.k = "key" /\ store_as.v /= <<"">>
                  THEN (store_as.v :> response_payload) ELSE EmptyMap
        field_mapping == MGet(metadata, "store_response_fields")
    IN IF IsDict(field_mapping) /\ (IsDict(response_payload) \/ IsList(response_payload))
       THEN StoreFields(stored, field_mapping.v, DOMAIN field_mapping.v, response_payload)
       ELSE stored

NoCustomResult == [status |-> "", detail |-> NoneV, context_updates |-> EmptyDict]

\* the variables bag the handler renders templates against
TemplateVariables(metadata, resolved_credentials, context, user) ==
    LET base_variables ==
            (<<"context">> :> context)
            @@ (<<"credentials">> :> DictV((<<"email">> :> StrV(resolved_credentials.email))
                                      @@ (<<"password">> :> StrV(resolved_credentials.password))))
            @@ (<<"user">> :> DictV((<<"id">> :> IntV(user.id))
                                    @@ (<<"email">> :> StrV(user.email))))
        extra_variables == MGet(metadata, "variables")
    IN DictV(IF IsDict(extra_variables) THEN extra_variables.v @@ base_variables
             ELSE base_variables)

\* the PowerAutomateInvocationRequest the handler builds
Invocation(metadata, template_variables) ==
    [parameters |-> RenderedField(metadata, "parameters", template_variables),
     body_overrides |-> RenderedField(metadata, "body_overrides", template_variables),
     query_params |-> RenderedField(metadata, "query_params", template_variables),
     wait_for_completion |->
         IF <<"wait_for_completion">> \in DOMAIN metadata.v
         THEN Truthy(MGet(metadata, "wait_for_completion")) ELSE TRUE,
     timeout_seconds |-> _coerce_int(MGet(metadata, "timeout_seconds")),
     failure_flow_id |-> _coerce_int(MGet(metadata, "failure_flow_id")),
     failure_parameters |->
         RenderedField(metadata, "failure_parameters", template_variables),
     failure_body_overrides |->
         RenderedField(metadata, "failure_body_overrides", template_variables),
     failure_query_params |->
         RenderedField(metadata, "failure_query_params", template_variables)]

\* the field constraint ge=1, le=3600 of the request's timeout_seconds
InvalidTimeout(timeout_seconds) ==
    timeout_seconds /= NoneV
    /\ (timeout_seconds.v < MinTimeout \/ timeout_seconds.v > MaxRequestTimeout)

\* the handler once invoke_flow has returned or raised
AfterInvoke(metadata, call) ==
    IF call.raised.cls = "LookupError"
    THEN [raised |-> NoExc, declined |-> FALSE,
          custom_result |-> [status |-> "error", detail |-> StrV(call.raised.msg),
                             context_updates |-> EmptyDict],
          dispatches |-> call.dispatches]
    ELSE IF call.raised /= NoExc
    THEN [raised |-> call.raised, declined |-> FALSE, custom_result |-> NoCustomResult,
          dispatches |-> call.dispatches]
    ELSE [raised |-> NoExc, declined |-> FALSE,
          custom_result |->
              [status |-> call.result.status,
               detail |-> IF call.result.detail = NoneV /\ call.result.status = "success"
                          THEN StrV("Flow executed successfully")
                          ELSE call.result.detail,
               context_updates |-> DictV(ContextUpdates(metadata, call.result.response))],
          dispatches |-> call.dispatches]

\* the handler once the flow id is known
WithFlowId(metadata, user, outs, flow_id, invocation) ==
    IF flow_id = NoneV
    THEN [raised |-> NoExc, declined |-> TRUE, custom_result |-> NoCustomResult,
          dispatches |-> <<>>]
    ELSE IF InvalidTimeout(invocation.timeout_seconds)
    THEN [raised |-> Exc("ValidationError", "timeout_seconds out of range"),
          declined |-> FALSE, custom_result |-> NoCustomResult, dispatches |-> <<>>]
    ELSE AfterInvoke(metadata, invoke_flow(user.id, flow_id.v, invocation, TRUE, outs))

\* _handle_custom_action; yields [raised, declined, custom_result, dispatches]
\* where declined stands for the handler returning None
_handle_custom_action(action, resolved_credentials, context, user, outs) ==
    WithFlowId(action.metadata, user, outs,
               _coerce_int(MGet(action.metadata, "power_automate_flow_id")),
               Invocation(action.metadata,
                          TemplateVariables(action.metadata, resolved_credentials,
                                            context, user)))

\* ------------------------------------------------------------- executor
ActionTypes == {"click", "fill", "select", "wait", "custom"}
StepStatuses == {"success", "error", "skipped"}

\* ScrapingAction(**action): the type must be one of the Literal's values
ValidAction(action) == action.type \in ActionTypes
_parse_actions(stored) ==
    IF \A i \in 1..Len(stored) : ValidAction(stored[i])
    THEN [raised |-> NoExc, actions |-> stored]
    ELSE [raised |-> Exc("ValidationError", "Input should be 'click', 'fill', 'select', 'wait' or 'custom'"),
          actions |-> <<>>]

\* variant: only the empty URL counts as blank
ShouldNavigateEmptyOnly(url) == url = ""

\* the guard of the initial navigation
ShouldNavigate(url) == url = "" \/ url = "about:blank"

\* a call of a page primitive, with the index of the action that made it
\* (-1 for the initial goto) and the exception it raised, if any
PageCall(op, index, selector, value, raised) ==
    [op |-> op, index |-> index, selector |-> selector, value |-> value, raised |-> raised]

\* an entry of the run's trace: a page primitive call or an invocation of
\* the custom action handler, with the index of the action it was made for
Dispatched(kind, index) == [kind |-> kind, index |-> index]

\* variant: steps numbered from one
StepResultOneBased(index, action, status, detail, used_input) ==
    [index |-> index + 1, type |-> action.type, selector |-> action.selector,
     status |-> status, detail |-> detail, input_text |-> used_input]

\* the dict returned by _execute_single_action
StepResult(index, action, status, detail, used_input) ==
    [index |-> index, type |-> action.type, selector |-> action.selector,
     status |-> status, detail |-> detail, input_text |-> used_input]

\* variant: the exception's text is dropped
CaughtWithoutDetail(index, action, exc, used_input) ==
    StepResult(index, action, "error", NoneV, used_input)

\* the except clause: a raised exception becomes status error, detail str(exc)
Caught(index, action, exc, used_input) ==
    StepResult(index, action, "error", StrV(exc.msg), used_input)

\* variant: a primitive that raised is called a second time
PrimitiveRetried(op, index, action, value, used_input, context, pageOut) ==
    LET made == PageCall(op, index, IF op \in {"click", "fill", "select_option"}
                                    THEN action.selector ELSE "",
                         value, pageOut)
    IN [result |-> IF pageOut = NoExc
                   THEN StepResult(index, action, "success", NoneV, used_input)
                   ELSE Caught(index, action, pageOut, used_input),
        context |-> context,
        calls |-> IF pageOut = NoExc THEN <<made>> ELSE <<made, made>>,
        trace |-> IF pageOut = NoExc THEN <<Dispatched("page", index)>>
                  ELSE <<Dispatched("page", index), Dispatched("page", index)>>,
        dispatches |-> <<>>, invocation |-> NoCustomResult, handled |-> FALSE]

\* a step that issues exactly one page primitive call
Primitive(op, index, action, value, used_input, context, pageOut) ==
    [result |-> IF pageOut = NoExc
                THEN StepResult(index, action, "success", NoneV, used_input)
                ELSE Caught(index, action, pageOut, used_input),
     context |-> context,
     calls |-> <<PageCall(op, index, IF op \in {"click", "fill", "select_option"}
                                      THEN action.selector ELSE "",
                          value, pageOut)>>,
     trace |-> <<Dispatched("page", index)>>,
     dispatches |-> <<>>, invocation |-> NoCustomResult, handled |-> FALSE]

\* variant: a missing value is reported as a failure
SkippedAsError(index, action, detail, context) ==
    [result |-> StepResult(index, action, "error", StrV(detail), NoneV),
     context |-> context, calls |-> <<>>, trace |-> <<>>, dispatches |-> <<>>,
     invocation |-> NoCustomResult, handled |-> FALSE]

\* a step that touches no page primitive
Skipped(index, action, detail, context) ==
    [result |-> StepResult(index, action, "skipped", StrV(detail), NoneV),
     context |-> context, calls |-> <<>>, trace |-> <<>>, dispatches |-> <<>>,
     invocation |-> NoCustomResult, handled |-> FALSE]

\* variant: metadata.script is never run
ScriptFallbackIgnored(index, action, context, pageOut) ==
    Skipped(index, action, "No executable script provided", context)

\* the "if not handled" part: metadata.script through page.evaluate, or skip
ScriptFallback(index, action, context, pageOut) ==
    LET script == MGet(action.metadata, "script")
    IN IF Truthy(script)
       THEN Primitive("evaluate", index, action, script, NoneV, context, pageOut)
       ELSE Skipped(index, action, "No executable script provided", context)

\* the custom branch once the handler, if any, has answered (h) and with
\* what the script fallback would give
AdoptOrFallback(index, action, context, handlerRegistered, h, fallback) ==
    IF ~handlerRegistered THEN fallback
    ELSE IF h.raised /= NoExc
    THEN [result |-> Caught(index, action, h.raised, NoneV), context |-> context,
          calls |-> <<>>, trace |-> <<Dispatched("handler", index)>>,
          dispatches |-> h.dispatches,
          invocation |-> NoCustomResult, handled |-> FALSE]
    ELSE IF h.declined
    THEN [fallback EXCEPT !.trace = <<Dispatched("handler", index)>> \o fallback.trace]
    ELSE [result |-> StepResult(index, action, h.custom_result.status,
                                h.custom_result.detail, NoneV),
          context |-> IF Truthy(h.custom_result.context_updates)
                      THEN _merge_context(context, h.custom_result.context_updates)
                      ELSE context,
          calls |-> <<>>, trace |-> <<Dispatched("handler", index)>>,
          dispatches |-> h.dispatches,
          invocation |-> h.custom_result, handled |-> TRUE]

\* the branch for custom (or other) actions
CustomStep(index, action, credentials, context, handlerRegistered, user, pageOut, outs) ==
    AdoptOrFallback(index, action, context, handlerRegistered,
                    _handle_custom_action(action, credentials, context, user, outs),
                    ScriptFallback(index, action, context, pageOut))

\* the fill and select branches once the value is resolved
ValueStep(op, index, action, used_input, detail, context, pageOut) ==
    IF used_input = NoneV
    THEN Skipped(index, action, detail, context)
    ELSE Primitive(op, index, action, used_input, used_input, context, pageOut)

\* _execute_single_action: yields the step's result, the context after the
\* step, the page calls and flow dispatches it made
_execute_single_action(index, action, credentials, context, handlerRegistered, user, pageOut, outs) ==
    CASE action.type = "click" ->
            Primitive("click", index, action, NoneV, NoneV, context, pageOut)
      [] action.type = "fill" ->
            ValueStep("fill", index, action,
                      _resolve_input_value(action, credentials, context),
                      "No value available for fill action", context, pageOut)
      [] action.type = "select" ->
            ValueStep("select_option", index, action,
                      _resolve_select_value(action, credentials, context),
                      "No option value available for select action", context, pageOut)
      [] action.type = "wait" ->
            Primitive("wait_for_timeout", index, action,
                      IntV(_resolve_wait_timeout(action)), NoneV, context, pageOut)
      [] OTHER ->
            CustomStep(index, action, credentials, context, handlerRegistered, user,
                       pageOut, outs)

\* ------------------------------------------------------------------- text
\* Strings whose characters the code inspects are tuples of characters.
Whitespace == {" ", "\t"}

\* str.strip()
RECURSIVE LStrip(_)
LStrip(t) == IF t /= <<>> /\ Head(t) \in Whitespace THEN LStrip(Tail(t)) ELSE t
RECURSIVE RStrip(_)
RStrip(t) ==
    IF t /= <<>> /\ t[Len(t)] \in Whitespace THEN RStrip(SubSeq(t, 1, Len(t) - 1)) ELSE t
Strip(t) == RStrip(LStrip(t))

\* str.split(): the maximal runs of non-whitespace characters
RECURSIVE SplitFrom(_, _, _)
SplitFrom(t, word, acc) ==
    IF t = <<>> THEN (IF word = <<>> THEN acc ELSE Append(acc, word))
    ELSE IF Head(t) \in Whitespace
    THEN SplitFrom(Tail(t), <<>>, IF word = <<>> THEN acc ELSE Append(acc, word))
    ELSE SplitFrom(Tail(t), Append(word, Head(t)), acc)
Split(t) == SplitFrom(t, <<>>, <<>>)

\* "".join(parts)
RECURSIVE Concat(_)
Concat(parts) == IF parts = <<>> THEN <<>> ELSE Head(parts) \o Concat(Tail(parts))

\* str.replace(ch, by) for a single character ch
RECURSIVE Replace(_, _, _)
Replace(t, ch, by) ==
    IF t = <<>> THEN <<>>
    ELSE (IF Head(t) = ch THEN by ELSE <<Head(t)>>) \o Replace(Tail(t), ch, by)

\* ------------------------------------------------------ scraping/helpers.py
\* An HTML snippet is the sequence of events HTMLParser reports for it:
\* [e |-> "starttag" | "startendtag", tag, attrs] with attrs a sequence of
\* <<name, value>> (value NoneV for a bare attribute), and [e |-> "endtag" |
\* "data" | "comment", tag |-> <<>>, attrs |-> <<>>] for everything else.
Event(e, tag, attrs) == [e |-> e, tag |-> tag, attrs |-> attrs]

\* {name: value or "" for name, value in attrs}: a later pair replaces an
\* earlier one of the same name
RECURSIVE AttrDict(_, _)
AttrDict(attrs, acc) ==
    IF attrs = <<>> THEN acc
    ELSE AttrDict(Tail(attrs),
                  (Head(attrs)[1] :> (IF Head(attrs)[2] = NoneV THEN <<>> ELSE Head(attrs)[2].v))
                  @@ acc)

\* _ElementDescription() before any tag was seen
NoElement == [tag |-> NoneV, attributes |-> NoneV]

\* _ElementSniffer: the description of the first start tag, if any
RECURSIVE Sniff(_)
Sniff(events) ==
    IF events = <<>> THEN NoElement
    ELSE IF Head(events).e \in {"starttag", "startendtag"}
    THEN [tag |-> CharsV(Head(events).tag),
          attributes |-> DictV(AttrDict(Head(events).attrs, EmptyMap))]
    ELSE Sniff(Tail(events))

\* _ElementDescription.has_data
has_data(element) == Truthy(element.tag)

\* attributes.get(name, "") on an attribute dictionary
AttrGet(attributes, name) == IF name \in DOMAIN attributes THEN attributes[name] ELSE <<>>

_escape_attr_value(value) ==
    Replace(Replace(value, "\\", <<"\\", "\\">>), "\"", <<"\\", "\"">>)

\* the attributes _build_selector adds to the selector, in order, with
\* the characters of each name
attribute_priority ==
    <<[name |-> "name", chars |-> <<"n", "a", "m", "e">>],
      [name |-> "data-testid", chars |-> <<"d", "a", "t", "a", "-", "t", "e", "s", "t", "i", "d">>],
      [name |-> "data-test", chars |-> <<"d", "a", "t", "a", "-", "t", "e", "s", "t">>],
      [name |-> "data-qa", chars |-> <<"d", "a", "t", "a", "-", "q", "a">>],
      [name |-> "aria-label", chars |-> <<"a", "r", "i", "a", "-", "l", "a", "b", "e", "l">>],
      [name |-> "data-bind", chars |-> <<"d", "a", "t", "a", "-", "b", "i", "n", "d">>],
      [name |-> "type", chars |-> <<"t", "y", "p", "e">>]>>

\* the [name="value"] parts of the selector
RECURSIVE AttributeSelectors(_, _)
AttributeSelectors(attributes, names) ==
    IF names = <<>> THEN <<>>
    ELSE (IF AttrGet(attributes, Head(names).name) /= <<>>
          THEN <<"[">> \o Head(names).chars \o <<"=", "\"">>
               \o _escape_attr_value(AttrGet(attributes, Head(names).name)) \o <<"\"", "]">>
          ELSE <<>>)
         \o AttributeSelectors(attributes, Tail(names))

\* tag.class1.class2
ClassSelector(tag, class_names) ==
    tag \o Concat([i \in 1..Len(class_names) |-> <<".">> \o class_names[i]])

\* variant: the classes are preferred to the id
BuildSelectorClassFirst(element) ==
    LET attributes == IF element.attributes = NoneV THEN EmptyMap ELSE element.attributes.v
    IN IF ~has_data(element) THEN <<"b", "o", "d", "y">>
       ELSE IF Split(AttrGet(attributes, "class")) /= <<>>
       THEN ClassSelector(element.tag.v, Split(AttrGet(attributes, "class")))
       ELSE IF AttrGet(attributes, "id") /= <<>> THEN <<"#">> \o AttrGet(attributes, "id")
       ELSE element.tag.v

_build_selector(element) ==
    LET attributes == IF element.attributes = NoneV THEN EmptyMap ELSE element.attributes.v
        element_id == AttrGet(attributes, "id")
        selector == ClassSelector(element.tag.v, Split(AttrGet(attributes, "class")))
        attribute_selectors == AttributeSelectors(attributes, attribute_priority)
    IN IF ~has_data(element) THEN <<"b", "o", "d", "y">>
       ELSE IF element_id /= <<>> THEN <<"#">> \o element_id
       ELSE IF attribute_selectors /= <<>> THEN selector \o attribute_selectors
       ELSE IF selector /= element.tag.v THEN selector
       ELSE element.tag.v

\* variant: the hint is trimmed but keeps its case
NormaliseWithoutLower(value) == Strip(value)

_normalise_action(value) == Lower(Strip(value))

\* the first non-empty of the candidate attributes
RECURSIVE FirstAttribute(_, _)
FirstAttribute(attributes, candidates) ==
    IF candidates = <<>> THEN NoneV
    ELSE IF AttrGet(attributes, Head(candidates)) /= <<>>
    THEN CharsV(AttrGet(attributes, Head(candidates)))
    ELSE FirstAttribute(attributes, Tail(candidates))

_resolve_fill_value(attributes, explicit) ==
    IF Truthy(explicit) THEN explicit
    ELSE FirstAttribute(attributes, <<"value", "placeholder", "aria-label", "title">>)

\* the three keyword sets build_action_step tests the hint against
WaitHints ==
    {<<"w", "a", "i", "t">>,
     <<"w", "a", "i", "t", " ", "f", "o", "r", " ", "e", "l", "e", "m", "e", "n", "t">>,
     <<"w", "a", "i", "t", " ", "f", "o", "r", " ", "s", "e", "l", "e", "c", "t", "o", "r">>}
ClickHints ==
    {<<"c", "l", "i", "c", "k">>,
     <<"p", "r", "e", "s", "s">>,
     <<"t", "a", "p">>}
FillHints ==
    {<<"i", "n", "p", "u", "t">>,
     <<"i", "n", "p", "u", "t", " ", "t", "e", "x", "t">>,
     <<"f", "i", "l", "l">>,
     <<"t", "y", "p", "e">>,
     <<"t", "y", "p", "e", " ", "t", "e", "x", "t">>}

\* the wait step build_action_step falls back to
DefaultWaitMilliseconds == 1000

\* what build_action_step gives: the ActionStep it returns, or what it raises
Built(step) == [raised |-> NoExc, step |-> DictV(step)]
BuildError(msg) == [raised |-> Exc("ValueError", msg), step |-> NoneV]

\* variant: a wait always waits for the selector
WaitStepForSelector(element, selector) ==
    Built(("action" :> StrV("wait_for_element")) @@ ("selector" :> CharsV(selector))
          @@ ("state" :> StrV("visible")))

\* the wait branch: wait for the element when there is one, else pause
WaitStep(element, selector) ==
    IF has_data(element)
    THEN Built(("action" :> StrV("wait_for_element")) @@ ("selector" :> CharsV(selector))
               @@ ("state" :> StrV("visible")))
    ELSE Built(("action" :> StrV("wait")) @@ ("milliseconds" :> IntV(DefaultWaitMilliseconds)))

\* build_action_step once the snippet is parsed and the hint normalised
BuildFrom(element, action_key, selector, value) ==
    IF action_key \in WaitHints THEN WaitStep(element, selector)
    ELSE IF action_key \in ClickHints
    THEN (IF ~has_data(element)
          THEN BuildError("Cannot infer a selector for the requested click action")
          ELSE Built(("action" :> StrV("click")) @@ ("selector" :> CharsV(selector))))
    ELSE IF action_key \in FillHints
    THEN (IF ~has_data(element)
          THEN BuildError("Cannot infer a selector for the requested input action")
          ELSE Built((IF _resolve_fill_value(element.attributes.v, value) /= NoneV
                      THEN "value" :> _resolve_fill_value(element.attributes.v, value)
                      ELSE EmptyMap)
                     @@ ("action" :> StrV("fill")) @@ ("selector" :> CharsV(selector))))
    ELSE BuildError("Unsupported action")

build_action_step(html_snippet, action_hint, value) ==
    BuildFrom(Sniff(html_snippet), _normalise_action(action_hint),
              _build_selector(Sniff(html_snippet)), value)

\* ---------------------------------------------------------- core/scraping.py
_ACTION_KEYWORDS ==
    <<[keyword |-> <<"c", "l", "i", "c", "k">>, action_type |-> "click"],
      [keyword |-> <<"p", "r", "e", "s", "s">>, action_type |-> "click"],
      [keyword |-> <<"t", "a", "p">>, action_type |-> "click"],
      [keyword |-> <<"s", "u", "b", "m", "i", "t">>, action_type |-> "click"],
      [keyword |-> <<"c", "h", "o", "o", "s", "e">>, action_type |-> "select"],
      [keyword |-> <<"s", "e", "l", "e", "c", "t">>, action_type |-> "select"],
      [keyword |-> <<"p", "i", "c", "k">>, action_type |-> "select"],
      [keyword |-> <<"f", "i", "l", "l">>, action_type |-> "fill"],
      [keyword |-> <<"e", "n", "t", "e", "r">>, action_type |-> "fill"],
      [keyword |-> <<"t", "y", "p", "e">>, action_type |-> "fill"],
      [keyword |-> <<"u", "p", "d", "a", "t", "e">>, action_type |-> "fill"],
      [keyword |-> <<"w", "r", "i", "t", "e">>, action_type |-> "fill"],
      [keyword |-> <<"w", "a", "i", "t">>, action_type |-> "wait"],
      [keyword |-> <<"p", "a", "u", "s", "e">>, action_type |-> "wait"],
      [keyword |-> <<"d", "e", "l", "a", "y">>, action_type |-> "wait"]>>

\* the loop over the keyword table, on the text it is given
RECURSIVE FirstKeyword(_, _)
FirstKeyword(text, table) ==
    IF table = <<>> THEN "custom"
    ELSE IF Contains(text, Head(table).keyword) THEN Head(table).action_type
    ELSE FirstKeyword(text, Tail(table))

\* variant: the instruction is scanned as written
DetectWithoutLower(instruction) == FirstKeyword(instruction, _ACTION_KEYWORDS)

_detect_action_type(instruction) == FirstKeyword(Lower(instruction), _ACTION_KEYWORDS)

\* ------------------------------------------------ inputs of the builders
\* longest instruction given to the classifier, in words of InstructionWords
MaxWords == 2
\* most attributes on the element of a snippet
MaxAttributes == 2

InstructionWords ==
    {<<"C", "l", "i", "c", "k">>,
     <<"T", "A", "P">>,
     <<"w", "a", "i", "t">>,
     <<" ">>,
     <<"p", "i", "c", "k">>,
     <<"T", "y", "p", "e">>,
     <<"r", "e", "w", "r", "i", "t", "e">>,
     <<"S", "u", "b", "m", "i", "t">>,
     <<"d", "e", "l", "a", "y">>,
     <<"x">>,
     <<"o", "n">>,
     <<"s">>}
Instructions ==
    {Concat(ws) : ws \in UNION {[1..n -> InstructionWords] : n \in 0..MaxWords}}

\* the hints: the keywords of both tables, some of them padded or in
\* capitals, and hints that are no keyword
Hints ==
    {<<"c", "l", "i", "c", "k">>,
     <<"p", "r", "e", "s", "s">>,
     <<"t", "a", "p">>,
     <<"s", "u", "b", "m", "i", "t">>,
     <<"c", "h", "o", "o", "s", "e">>,
     <<"s", "e", "l", "e", "c", "t">>,
     <<"p", "i", "c", "k">>,
     <<"f", "i", "l", "l">>,
     <<"e", "n", "t", "e", "r">>,
     <<"t", "y", "p", "e">>,
     <<"u", "p", "d", "a", "t", "e">>,
     <<"w", "r", "i", "t", "e">>,
     <<"i", "n", "p", "u", "t">>,
     <<"i", "n", "p", "u", "t", " ", "t", "e", "x", "t">>,
     <<"t", "y", "p", "e", " ", "t", "e", "x", "t">>,
     <<"w", "a", "i", "t">>,
     <<"p", "a", "u", "s", "e">>,
     <<"d", "e", "l", "a", "y">>,
     <<"w", "a", "i", "t", " ", "f", "o", "r", " ", "e", "l", "e", "m", "e", "n", "t">>,
     <<"w", "a", "i", "t", " ", "f", "o", "r", " ", "s", "e", "l", "e", "c", "t", "o", "r">>,
     <<" ", "C", "l", "i", "c", "k", " ">>,
     <<"T", "A", "P">>,
     <<"\t", "W", "a", "i", "t", " ", "F", "o", "r", " ", "E", "l", "e", "m", "e", "n", "t">>,
     <<"I", "n", "p", "u", "t", " ", " ", "t", "e", "x", "t">>,
     <<"s", "c", "r", "o", "l", "l">>,
     <<>>,
     <<"c", "l", "i", "c", "k", "s">>,
     <<"w", "a", "i", "t", " ", "f", "o", "r">>}

\* the attributes a snippet's element may carry
SnippetAttributes ==
    {<<"id", CharsV(<<"m", "a", "i", "n">>)>>, <<"id", CharsV(<<>>)>>, <<"id", NoneV>>,
     <<"class", CharsV(<<"b", "t", "n", " ", "p", "r", "i", "m", "a", "r", "y">>)>>,
     <<"name", CharsV(<<"q", "\"", "1">>)>>,
     <<"type", CharsV(<<"t", "e", "x", "t">>)>>,
     <<"data-testid", CharsV(<<"g", "o">>)>>,
     <<"placeholder", CharsV(<<"y", "o", "u">>)>>}
\* the attribute lists, without a repeated name
AttributeLists ==
    {as \in UNION {[1..n -> SnippetAttributes] : n \in 0..MaxAttributes} :
        \A i, j \in DOMAIN as : i /= j => as[i][1] /= as[j][1]}
Other(e) == Event(e, <<>>, <<>>)
\* snippets with an element, alone or after a comment, and snippets without
Elements ==
    {Event(e, <<"i", "n", "p", "u", "t">>, as) : e \in {"starttag", "startendtag"}, as \in AttributeLists}
Snippets ==
    {<<el>> : el \in Elements}
    \cup {<<Other("comment"), el, Other("data"), Other("endtag")>> : el \in Elements}
    \cup {<<>>, <<Other("comment")>>, <<Other("data")>>, <<Other("endtag"), Other("data")>>}
FillValues == {NoneV, CharsV(<<"h", "e", "l", "l", "o">>)}


\* ------------------------------------------------------ the routines run
RoutineUrl == "https://example.com/login"
Credentials == [email |-> "a@b.com", password |-> "p4ss"]
User == [id |-> 1, email |-> "user@example.com"]

Meta(f) == DictV(f)
Action(type, selector, input_text, metadata) ==
    [type |-> type, selector |-> selector, input_text |-> input_text, metadata |-> metadata]

k_mfa_code == <<"mfa", "code">>
k_labels_submit == <<"labels", "submit">>

ClickSubmit == Action("click", "#submit-btn", NoneV, EmptyDict)
ClickCapture ==
    Action("click", "#submit-button", NoneV,
           Meta(<<"store_text_as">> :> KeyV(k_labels_submit)))
FillEmail ==
    Action("fill", "#email-field", NoneV,
           Meta(<<"attributes">> :> DictV((<<"type">> :> CharsV(c_email))
                                          @@ (<<"name">> :> CharsV(c_email)))))
FillPassword ==
    Action("fill", "#password-field", NoneV, Meta(<<"expects_secret">> :> BoolV(TRUE)))
FillLiteral == Action("fill", "#q", StrV("hello"), EmptyDict)
FillUnresolved ==
    Action("fill", "#free-text", NoneV,
           Meta((<<"label">> :> NoneV) @@ (<<"suggested_value">> :> NoneV)
                @@ (<<"attributes">> :> DictV(<<"type">> :> CharsV(c_text)))))
FillOtp == Action("fill", "#otp-input", NoneV, Meta(<<"context_key">> :> KeyV(k_mfa_code)))
SelectUnresolved == Action("select", "#country", NoneV, EmptyDict)
SelectOption ==
    Action("select", "#plan", NoneV, Meta(<<"selected_option">> :> StrV("basic")))
WaitTwo == Action("wait", "", NoneV, Meta(<<"delay_seconds">> :> IntV(2)))
FlowOtp ==
    Action("custom", "", NoneV,
           Meta((<<"power_automate_flow_id">> :> IntV(1))
                @@ (<<"parameters">> :>
                       DictV((<<"user">> :> TmplV(<<Ph(<<"credentials", "email">>)>>))
                             @@ (<<"button_label">> :>
                                    TmplV(<<Ph(<<"context", "labels", "submit">>)>>))))
                @@ (<<"store_response_fields">> :> DictV(<<"otp">> :> KeyV(k_mfa_code)))))
FlowWithFallback ==
    Action("custom", "", NoneV,
           Meta((<<"power_automate_flow_id">> :> StrV("2"))
                @@ (<<"failure_flow_id">> :> IntV(1))
                @@ (<<"store_response_as">> :> KeyV(<<"last_response">>))))
FlowMissing ==
    Action("custom", "", NoneV, Meta(<<"power_automate_flow_id">> :> IntV(3)))
FlowBadTimeout ==
    Action("custom", "", NoneV,
           Meta((<<"power_automate_flow_id">> :> IntV(1))
                @@ (<<"timeout_seconds">> :> IntV(0))))
CustomScript ==
    Action("custom", "", NoneV, Meta(<<"script">> :> StrV("window.scrollTo(0, 0)")))
CustomEmptyScript == Action("custom", "", NoneV, Meta(<<"script">> :> StrV("")))
CustomBare == Action("custom", "", NoneV, EmptyDict)
FlowStoreMfa ==
    Action("custom", "", NoneV,
           Meta((<<"power_automate_flow_id">> :> IntV(1))
                @@ (<<"store_response_as">> :> KeyV(<<"mfa">>))))
Unrecognised == Action("hover", "#menu", NoneV, EmptyDict)

Catalogue ==
    {ClickSubmit, ClickCapture, FillEmail, FillPassword, FillLiteral, FillUnresolved,
     FillOtp, SelectUnresolved, SelectOption, WaitTwo, FlowOtp, FlowWithFallback,
     FlowMissing, FlowBadTimeout, CustomScript, CustomEmptyScript, CustomBare}

Routines == UNION {[1..n -> Catalogue] : n \in 0..MaxActions}

\* routines in which flows feed later fills through the context
ChainCatalogue == {FlowOtp, FlowStoreMfa, FillOtp, ClickCapture}
ChainRoutines == UNION {[1..n -> ChainCatalogue] : n \in 0..MaxChain}

\* rows of scraping_routines written past the API, whose actions need not
\* conform to ScrapingAction
StoredCatalogue == {ClickSubmit, FillUnresolved, CustomScript, CustomBare, Unrecognised}
StoredRoutines == UNION {[1..n -> StoredCatalogue] : n \in 0..MaxActions}

\* what the page and the HTTP client may do
PageErrors == {"Timeout 30000ms exceeded"}
PageOutcomes == {NoExc} \cup {Exc("Error", m) : m \in PageErrors}
StartUrls == {"", "about:blank", RoutineUrl}

Http(kind, status_code, body, msg) ==
    [kind |-> kind, status_code |-> status_code, body |-> body, msg |-> msg]
HttpOutcomes ==
    {Http("response", 200, DictV(<<"otp">> :> StrV("654321")), ""),
     Http("response", 200, DictV(<<"otp">> :> IntV(42)), ""),
     Http("response", 202, NoneV, ""),
     Http("response", 302, StrV("Found"), ""),
     Http("response", 500, DictV(<<"otp">> :> StrV("000000")), ""),
     Http("bad_json", 200, NoneV, ""), Http("timeout", 0, NoneV, ""),
          Http("http_error", 0, NoneV, "All connection attempts failed"),
          Http("http_error", 0, NoneV, "")}
FailureFlowOutcomes == {Http("response", 202, NoneV, ""), Http("timeout", 0, NoneV, "")}

\* ------------------------------------------------------------ core/browser.py
\* most browsers launched in one behaviour
MaxBrowsers == 2
\* most "close" and "disconnected" events emitted on one session
MaxEvents == 2

_DEFAULT_SESSION_ID == "default"

\* variant: one session per user, whatever the session identifier
SessionKeyPerUser(user_id, session_id) == <<user_id, _DEFAULT_SESSION_ID>>

_session_key(user_id, session_id) ==
    <<user_id, IF Truthy(session_id) THEN session_id.v ELSE _DEFAULT_SESSION_ID>>

\* dict.pop(key, None): the dictionary without the key
Pop(dict, key) == [k \in DOMAIN dict \ {key} |-> dict[k]]

\* a BrowserSession with what happened to it: the key it was registered
\* under, the closure state of _register_session_cleanup (cleanup_started),
\* the _cleanup tasks created for it, whether one is still to run (pending)
\* or is awaiting the shutdown after its removal (cleaning), the calls of
\* _shutdown_browser on its browser and the events emitted on it
BrowserSession(key) ==
    [key |-> key, cleanup_started |-> FALSE, cleanups |-> 0, pending |-> FALSE,
     cleaning |-> FALSE, shutdowns |-> 0, events |-> 0]

\* _shutdown_browser(session.playwright, session.browser)
_shutdown_browser(session) == [session EXCEPT !.shutdowns = @ + 1]

\* variant: every event schedules a cleanup
ScheduleCleanupEveryTime(session, loop_running) ==
    IF loop_running
    THEN [session EXCEPT !.cleanup_started = TRUE, !.cleanups = @ + 1, !.pending = TRUE]
    ELSE [session EXCEPT !.cleanup_started = TRUE]

\* _schedule_cleanup, the handler of both events
_schedule_cleanup(session, loop_running) ==
    IF session.cleanup_started THEN session
    ELSE IF loop_running
    THEN [session EXCEPT !.cleanup_started = TRUE, !.cleanups = @ + 1, !.pending = TRUE]
    ELSE [session EXCEPT !.cleanup_started = TRUE]

\* -------------------------------------------- generate_scraping_action
\* " ".join(parts)
RECURSIVE JoinSpace(_)
JoinSpace(parts) ==
    IF parts = <<>> THEN <<>>
    ELSE IF Len(parts) = 1 THEN Head(parts)
    ELSE Head(parts) \o <<" ">> \o JoinSpace(Tail(parts))

_normalise_whitespace(value) == JoinSpace(Split(value))

\* the tag of the first start tag, lower-cased, or None
FirstTag(html_snippet) ==
    IF Sniff(html_snippet).tag = NoneV THEN NoneV ELSE CharsV(Lower(Sniff(html_snippet).tag.v))

\* the name="value" pairs of the whole snippet, in the order a dict keeps
\* them: a repeated name keeps its first place and takes the last value; a
\* bare attribute is no match of the pattern
RECURSIVE QuotedPairs(_, _)
QuotedPairs(attrs, acc) ==
    IF attrs = <<>> THEN acc
    ELSE IF Head(attrs)[2] = NoneV THEN QuotedPairs(Tail(attrs), acc)
    ELSE IF \E i \in DOMAIN acc : acc[i][1] = Head(attrs)[1]
    THEN QuotedPairs(Tail(attrs),
                     [i \in DOMAIN acc |-> IF acc[i][1] = Head(attrs)[1]
                                           THEN <<acc[i][1], Head(attrs)[2].v>> ELSE acc[i]])
    ELSE QuotedPairs(Tail(attrs), Append(acc, <<Head(attrs)[1], Head(attrs)[2].v>>))
RECURSIVE AllPairs(_, _)
AllPairs(events, acc) ==
    IF events = <<>> THEN acc
    ELSE AllPairs(Tail(events), QuotedPairs(Head(events).attrs, acc))

\* _extract_attributes: the tag and the attributes, as ordered pairs
_extract_attributes(html_snippet) ==
    [tag |-> FirstTag(html_snippet), attributes |-> AllPairs(html_snippet, <<>>)]

\* attributes.get(name) on the ordered pairs, "" when absent
PairGet(attributes, name) ==
    IF \E i \in DOMAIN attributes : attributes[i][1] = name
    THEN attributes[CHOOSE i \in DOMAIN attributes : attributes[i][1] = name][2]
    ELSE <<>>

\* key.startswith("data-"), for the attribute names in use
DataAttributes == {"data-testid", "data-test", "data-qa", "data-bind", "data-default",
                   "data-value"}
DataNames ==
    (("data-testid" :> <<"d", "a", "t", "a", "-", "t", "e", "s", "t", "i", "d">>)
    @@ ("data-test" :> <<"d", "a", "t", "a", "-", "t", "e", "s", "t">>)
    @@ ("data-qa" :> <<"d", "a", "t", "a", "-", "q", "a">>)
    @@ ("data-bind" :> <<"d", "a", "t", "a", "-", "b", "i", "n", "d">>)
    @@ ("data-default" :> <<"d", "a", "t", "a", "-", "d", "e", "f", "a", "u", "l", "t">>)
    @@ ("data-value" :> <<"d", "a", "t", "a", "-", "v", "a", "l", "u", "e">>))
\* the first data-* attribute with a value, as a position in the pairs
DataPositions(attributes) ==
    {i \in DOMAIN attributes : attributes[i][1] \in DataAttributes /\ attributes[i][2] /= <<>>}

_guess_selector(tag, attributes) ==
    IF PairGet(attributes, "id") /= <<>> THEN <<"#">> \o PairGet(attributes, "id")
    ELSE IF DataPositions(attributes) /= {}
    THEN LET i == CHOOSE i \in DataPositions(attributes) :
                      \A j \in DataPositions(attributes) : i <= j
         IN <<"[">> \o DataNames[attributes[i][1]] \o <<"=", "'">> \o attributes[i][2]
            \o <<"'", "]">>
    ELSE IF PairGet(attributes, "name") /= <<>> /\ Truthy(tag)
    THEN tag.v \o <<"[", "n", "a", "m", "e", "=", "'">> \o PairGet(attributes, "name") \o <<"'", "]">>
    ELSE IF Split(PairGet(attributes, "class")) /= <<>>
    THEN <<".">> \o Split(PairGet(attributes, "class"))[1]
    ELSE IF Truthy(tag) THEN tag.v ELSE <<"*">>

\* _extract_input_text: the first non-empty quoted piece of the instruction
RECURSIVE _extract_input_text(_)
_extract_input_text(instruction) ==
    IF instruction = <<>> THEN NoneV
    ELSE IF Head(instruction) \in {"\"", "'"}
    THEN LET rest == Tail(instruction)
             closing == {i \in DOMAIN rest : rest[i] = Head(instruction)}
         IN IF closing /= {} /\ 1 \notin closing
            THEN CharsV(SubSeq(rest, 1, (CHOOSE i \in closing : \A j \in closing : i <= j) - 1))
            ELSE _extract_input_text(rest)
    ELSE _extract_input_text(Tail(instruction))

\* the first of the named attributes whose stripped value is not empty
RECURSIVE FirstStripped(_, _)
FirstStripped(attributes, names) ==
    IF names = <<>> THEN NoneV
    ELSE IF Strip(PairGet(attributes, Head(names))) /= <<>>
    THEN CharsV(Strip(PairGet(attributes, Head(names))))
    ELSE FirstStripped(attributes, Tail(names))

_extract_label(attributes) ==
    FirstStripped(attributes,
                  <<"aria-label", "placeholder", "title", "alt", "data-testid", "data-test">>)

_extract_suggested_value(attributes) ==
    FirstStripped(attributes, <<"value", "placeholder", "data-default", "data-value">>)

\* the metadata of a generated action. Of its keys the model keeps those
\* the executor reads (attributes, label, suggested_value, delay_seconds,
\* expects_secret); html_preview, raw_instruction, confidence and text are
\* left out, and the instructions in use name no duration.
GeneratedMetadata(action_type, attributes, input_text) ==
    (IF action_type = "fill" /\ Lower(PairGet(attributes, "type")) = c_password
     THEN <<"expects_secret">> :> BoolV(TRUE) ELSE EmptyMap)
    @@ (<<"attributes">> :>
           DictV([k \in {<<attributes[i][1]>> : i \in DOMAIN attributes} |->
                      CharsV(PairGet(attributes, k[1]))]))
    @@ (<<"label">> :> _extract_label(attributes))
    @@ (<<"suggested_value">> :>
           IF action_type \in {"fill", "select"} /\ ~Truthy(input_text)
           THEN _extract_suggested_value(attributes) ELSE NoneV)
    @@ (<<"delay_seconds">> :> NoneV)

\* generate_scraping_action once the instruction is classified and the
\* snippet taken apart
GeneratedFrom(action_type, extracted, input_text) ==
    Action(action_type,
           CharsToString(_guess_selector(extracted.tag, extracted.attributes)),
           IF Truthy(input_text) THEN StrV(CharsToString(input_text.v)) ELSE NoneV,
           DictV(GeneratedMetadata(action_type, extracted.attributes, input_text)))

generate_scraping_action(instruction, html_snippet) ==
    GeneratedFrom(_detect_action_type(_normalise_whitespace(Strip(instruction))),
                  _extract_attributes(html_snippet),
                  IF _detect_action_type(_normalise_whitespace(Strip(instruction)))
                         \in {"fill", "select"}
                  THEN _extract_input_text(_normalise_whitespace(Strip(instruction)))
                  ELSE NoneV)

\* ------------------------------------------------------ routers/scraping.py
\* a request body: what relaxed_json_loads makes of it and, for an object,
\* its instruction and html_snippet
Body(json, instruction, html_snippet) ==
    [json |-> json, instruction |-> instruction, html_snippet |-> html_snippet]

\* _parse_relaxed_payload: the status it fails with, or 200
_parse_relaxed_payload(body) ==
    IF body.json = "malformed" THEN 400
    ELSE IF body.json /= "object" THEN 400
    ELSE IF body.instruction = <<>> \/ body.html_snippet = <<>> THEN 422
    ELSE 200

_generate_action(payload) == generate_scraping_action(payload.instruction, payload.html_snippet)

\* variant: the routine is looked up by its id alone
GetRoutineById(routines, routine_id, user_id) == routine_id \in DOMAIN routines

\* _get_owned_routine: whether the query finds a row; otherwise it raises 404
_get_owned_routine(routines, routine_id, user_id) ==
    routine_id \in DOMAIN routines /\ routines[routine_id].user_id = user_id

\* ------------------------------------------------- the browser sessions
BrowserUsers == {"1"}
SessionIds == {NoneV, StrV("default"), StrV("s1")}
Callers == {1, 2}
NotCalling == [at |-> "idle", user |-> "", session_id |-> NoneV, old |-> 0]
NothingYet == [kind |-> "none", user |-> "", session_id |-> NoneV, key |-> <<"", "">>,
               session |-> 0]
Happened(kind, user, session_id, key, session) ==
    [kind |-> kind, user |-> user, session_id |-> session_id, key |-> key, session |-> session]


\* ------------------------------------------------------- the stored routine
\* longest stored action list
MaxStored == 2

RouterUsers == {1, 2}
RequestedIds == {1, 2}
Clients == {1, 2}
Bodies ==
    {Body("object", <<"C", "l", "i", "c", "k", " ", " ", "i", "t">>,
          <<Event("starttag", <<"b", "u", "t", "t", "o", "n">>, <<<<"id", CharsV(<<"g", "o">>)>>>>), Other("data"),
            Other("endtag")>>),
     Body("object", <<"t", "y", "p", "e", " ", "'", "h", "i", "'">>,
          <<Event("startendtag", <<"i", "n", "p", "u", "t">>, <<<<"name", CharsV(<<"q">>)>>, <<"required", NoneV>>>>)>>),
     Body("object", <<>>, <<Other("data")>>),
     Body("malformed", <<>>, <<>>)}
\* the routine of user 1 as create_scraping_routine stored it
CreatedLists == {<<>>, <<ClickSubmit>>}

NoRequest == [at |-> "idle", user |-> 0, routine_id |-> 0, action_index |-> 0, actions |-> <<>>]
NoReply == [op |-> "none", user |-> 0, routine_id |-> 0, status |-> 0]
Reply(op, user, routine_id, status) ==
    [op |-> op, user |-> user, routine_id |-> routine_id, status |-> status]

\* ------------------------------------------ dictionaries as Python objects
\* The dicts of a run are objects: the heap is the sequence of the dict
\* objects created so far, each a map from keys to scalars or references,
\* and a dict is known by its position in it. An assignment stores the
\* reference, so one object can be reached along several paths.
\* most merges of context updates in one behaviour
MaxMerges == 2
\* deepest nesting read back from the heap
MaxDepth == 4

RefV(id) == [k |-> "ref", v |-> id]
IsRef(x) == x.k = "ref"

\* dict.get(key) on the object id
HeapGet(heap, id, key) == IF key \in DOMAIN heap[id] THEN heap[id][key] ELSE NoneV
\* object[key] = value
HeapSet(heap, id, key, value) == [heap EXCEPT ![id] = (key :> value) @@ @]

\* the objects response.json() creates for a body: one new dict object per
\* dict of the body; yields the heap and the value that stands for the body
RECURSIVE AllocTree(_, _)
RECURSIVE AllocKeys(_, _, _, _)
\* the next key of a dict once the value of key is allocated
AllocKeysNext(child, map, keys, acc, key) ==
    AllocKeys(child.heap, map, keys, (key :> child.value) @@ acc)
AllocKeys(heap, map, keys, acc) ==
    IF keys = {} THEN [heap |-> heap, map |-> acc]
    ELSE LET key == CHOOSE k \in keys : TRUE
         IN AllocKeysNext(AllocTree(heap, map[key]), map, keys \ {key}, acc, key)
\* the dict object itself, after the objects of its values
Allocated(filled) ==
    [heap |-> Append(filled.heap, filled.map), value |-> RefV(Len(filled.heap) + 1)]
AllocTree(heap, tree) ==
    IF ~IsDict(tree) THEN [heap |-> heap, value |-> tree]
    ELSE Allocated(AllocKeys(heap, tree.v, DOMAIN tree.v, EmptyMap))

\* the value a path of the heap holds, its dicts read through to MaxDepth
RECURSIVE Unfold(_, _, _)
Unfold(heap, value, depth) ==
    IF ~IsRef(value) THEN value
    ELSE IF depth = 0 THEN StrV("...")
    ELSE DictV([key \in DOMAIN heap[value.v] |->
                   Unfold(heap, heap[value.v][key], depth - 1)])

\* _extract_from_path on the objects of the heap
RECURSIVE ExtractFromHeap(_, _, _)
ExtractFromHeap(heap, current, chunks) ==
    IF chunks = <<>> THEN current
    ELSE IF chunks[1] = "" THEN NoneV
    ELSE IF IsRef(current)
    THEN ExtractFromHeap(heap, HeapGet(heap, current.v, <<chunks[1]>>), Tail(chunks))
    ELSE NoneV

\* _set_nested_value in place: the dicts on the way are entered, a new one
\* is created where there is none, and the last chunk is assigned
RECURSIVE SetNestedIn(_, _, _, _)
SetNestedIn(heap, id, parts, value) ==
    IF parts = <<>> THEN heap
    ELSE IF Len(parts) = 1 THEN HeapSet(heap, id, <<parts[1]>>, value)
    ELSE IF IsRef(HeapGet(heap, id, <<parts[1]>>))
    THEN SetNestedIn(heap, HeapGet(heap, id, <<parts[1]>>).v, Tail(parts), value)
    ELSE SetNestedIn(Append(HeapSet(heap, id, <<parts[1]>>, RefV(Len(heap) + 1)), EmptyMap),
                     Len(heap) + 1, Tail(parts), value)

\* variant: the update's value always replaces the target's
RECURSIVE MergeInShallow(_, _, _, _)
MergeInShallow(heap, target, updates, keys) ==
    IF keys = {} THEN heap
    ELSE LET key == CHOOSE k \in keys : TRUE
         IN MergeInShallow(HeapSet(heap, target, key, heap[updates][key]),
                           target, updates, keys \ {key})

\* _merge_context in place, for the keys of updates still to be visited:
\* dict and dict are merged recursively into the target's object, anything
\* else is assigned, the reference of a dict included
RECURSIVE MergeIn(_, _, _, _)
MergeIn(heap, target, updates, keys) ==
    IF keys = {} THEN heap
    ELSE LET key == CHOOSE k \in keys : TRUE
             value == heap[updates][key]
         IN MergeIn(IF key \in DOMAIN heap[target] /\ IsRef(heap[target][key])
                       /\ IsRef(value)
                    THEN MergeIn(heap, heap[target][key].v, value.v, DOMAIN heap[value.v])
                    ELSE HeapSet(heap, target, key, value),
                    target, updates, keys \ {key})

\* the loop of _handle_custom_action over store_response_fields
RECURSIVE StoreFieldsIn(_, _, _, _, _)
StoreFieldsIn(heap, updates, mapping, sources, response) ==
    IF sources = {} THEN heap
    ELSE LET source_path == CHOOSE p \in sources : TRUE
             extracted == ExtractFromHeap(heap, response, source_path)
         IN StoreFieldsIn(IF mapping[source_path].k = "key" /\ extracted.k /= "none"
                          THEN SetNestedIn(heap, updates,
                                           NonEmptyChunks(mapping[source_path].v), extracted)
                          ELSE heap,
                          updates, mapping, sources \ {source_path}, response)

\* context_updates as the handler builds it, a new dict object: the whole
\* response under store_response_as, then the mapped fields
StoredAs(heap, updates, store_as, response) ==
    IF store_as.k = "key" /\ store_as.v /= <<"">>
    THEN HeapSet(heap, updates, store_as.v, response) ELSE heap
BuildUpdates(heap, metadata, response) ==
    IF IsDict(MGet(metadata, "store_response_fields")) /\ IsRef(response)
    THEN StoreFieldsIn(StoredAs(Append(heap, EmptyMap), Len(heap) + 1,
                                MGet(metadata, "store_response_as"), response),
                       Len(heap) + 1, MGet(metadata, "store_response_fields").v,
                       DOMAIN MGet(metadata, "store_response_fields").v, response)
    ELSE StoredAs(Append(heap, EmptyMap), Len(heap) + 1,
                  MGet(metadata, "store_response_as"), response)

\* the runs whose contexts are followed
Runs == {1, 2}
\* variant: one dict made at import time serves every run
SharedContext(heap) == 1
\* context = {} at the start of a run: a new object
NewContext(heap) == Len(heap) + 1

\* what the flow actions of the runs store, and what their flows answer
StoreMetadata ==
    {Meta((<<"store_response_as">> :> KeyV(<<"resp">>))
          @@ (<<"store_response_fields">> :> DictV(<<"data">> :> KeyV(<<"copy">>)))),
     Meta(<<"store_response_fields">> :> DictV(<<"b">> :> KeyV(<<"copy", "b">>))),
     Meta(<<"store_response_as">> :> KeyV(<<"mfa">>)),
     Meta(<<"store_response_fields">> :> DictV(<<"otp">> :> KeyV(k_mfa_code))),
     Meta(<<"store_response_as">> :> KeyV(<<"flow", "result">>))}
ResponseBodies ==
    {DictV(<<"data">> :> DictV(<<"a">> :> IntV(1))),
     DictV((<<"b">> :> IntV(2)) @@ (<<"otp">> :> StrV("654321"))),
     StrV("done"), NoneV}

NoMerge ==
    [kind |-> "none", run |-> 0, before |-> EmptyDict, updates |-> EmptyDict,
     after |-> EmptyDict, store_as |-> NoneV, response |-> NoneV]
Merge(kind, run, before, updates, after, store_as, response) ==
    [kind |-> kind, run |-> run, before |-> before, updates |-> updates, after |-> after,
     store_as |-> store_as, response |-> response]

\* ------------------------------------- render_template on character strings
\* longest template, in pieces
MaxPieces == 2

Braces == {"{", "}"}
\* the end of the run of non-brace characters that starts at i
RECURSIVE RunEnd(_, _)
RunEnd(t, i) == IF i <= Len(t) /\ t[i] \notin Braces THEN RunEnd(t, i + 1) ELSE i

NoMatch == [ok |-> FALSE, start |-> 0, end |-> 0, group |-> <<>>]
\* _PLACEHOLDER_PATTERN, \{\{([^{}]+)\}\}, tried at position i
MatchAt(t, i, j) ==
    IF /\ i + 1 <= Len(t) /\ t[i] = "{" /\ t[i + 1] = "{"
       /\ j > i + 2 /\ j + 1 <= Len(t) /\ t[j] = "}" /\ t[j + 1] = "}"
    THEN [ok |-> TRUE, start |-> i, end |-> j + 1, group |-> SubSeq(t, i + 2, j - 1)]
    ELSE NoMatch

\* _PLACEHOLDER_PATTERN.finditer: the matches from left to right, each search
\* starting after the previous match
RECURSIVE FindIter(_, _)
FindIter(t, i) ==
    IF i > Len(t) THEN <<>>
    ELSE LET match == MatchAt(t, i, RunEnd(t, i + 2))
         IN IF match.ok THEN <<match>> \o FindIter(t, match.end + 1)
            ELSE FindIter(t, i + 1)

\* str.split(".")
RECURSIVE SplitDots(_, _)
SplitDots(t, chunk) ==
    IF t = <<>> THEN <<chunk>>
    ELSE IF Head(t) = "." THEN <<chunk>> \o SplitDots(Tail(t), <<>>)
    ELSE SplitDots(Tail(t), Append(chunk, Head(t)))
\* the stripped chunks of a stripped expression
PathOf(expression) ==
    LET chunks == SplitDots(Strip(expression), <<>>)
    IN [i \in 1..Len(chunks) |-> CharsToString(Strip(chunks[i]))]

\* str(value) and repr(value) as characters; a mapping is written in the
\* order of its keys, and the mappings written here have one key
Digits == <<"0", "1", "2", "3", "4", "5", "6", "7", "8", "9">>
RECURSIVE IntChars(_)
IntChars(i) ==
    IF i < 0 THEN <<"-">> \o IntChars(0 - i)
    ELSE IF i < 10 THEN <<Digits[i + 1]>>
    ELSE IntChars(i \div 10) \o <<Digits[(i % 10) + 1]>>
RECURSIVE Repr(_)
RECURSIVE ReprItems(_, _)
RECURSIVE ReprList(_)
StrChars(x) == IF x.k = "chars" THEN x.v ELSE Repr(x)
Repr(x) ==
    CASE x.k = "none" -> <<"N", "o", "n", "e">>
      [] x.k = "chars" -> <<"'">> \o x.v \o <<"'">>
      [] x.k = "int" -> IntChars(x.v)
      [] x.k = "bool" -> IF x.v THEN <<"T", "r", "u", "e">> ELSE <<"F", "a", "l", "s", "e">>
      [] x.k = "dict" -> <<"{">> \o ReprItems(x.v, DOMAIN x.v) \o <<"}">>
      [] x.k = "list" -> <<"[">> \o ReprList(x.v) \o <<"]">>
ReprItems(map, keys) ==
    IF keys = {} THEN <<>>
    ELSE LET key == CHOOSE k \in keys : TRUE
         IN <<"'", key[1], "'", ":", " ">> \o Repr(map[key])
            \o (IF keys = {key} THEN <<>> ELSE <<",", " ">> \o ReprItems(map, keys \ {key}))
ReprList(items) ==
    IF items = <<>> THEN <<>>
    ELSE Repr(Head(items)) \o (IF Len(items) = 1 THEN <<>> ELSE <<",", " ">> \o ReprList(Tail(items)))

\* replacer: the text put in place of one match
ReplacerChars(t, match, variables) ==
    LET value == _lookup(variables, PathOf(match.group))
    IN IF value = NoneV THEN SubSeq(t, match.start, match.end) ELSE StrChars(value)

\* _PLACEHOLDER_PATTERN.sub(replacer, template)
RECURSIVE Sub(_, _, _, _)
Sub(t, i, matches, variables) ==
    IF matches = <<>> THEN SubSeq(t, i, Len(t))
    ELSE SubSeq(t, i, Head(matches).start - 1)
         \o ReplacerChars(t, Head(matches), variables)
         \o Sub(t, Head(matches).end + 1, Tail(matches), variables)

\* variant: a lone placeholder is interpolated like any other
RenderCharsAsText(template, variables, matches) ==
    IF matches = <<>> THEN template
    ELSE CharsV(Sub(template.v, 1, matches, variables))
\* render_template on a str
RenderChars(template, variables, matches) ==
    IF matches = <<>> THEN template
    ELSE IF Len(matches) = 1 /\ matches[1].start = 1 /\ matches[1].end = Len(template.v)
    THEN LET value == _lookup(variables, PathOf(matches[1].group))
         IN IF value = NoneV THEN template ELSE value
    ELSE CharsV(Sub(template.v, 1, matches, variables))

\* render_template on strings held as characters
RECURSIVE RenderTemplate(_, _)
RenderTemplate(template, variables) ==
    CASE template.k = "chars" -> RenderChars(template, variables, FindIter(template.v, 1))
      [] template.k = "dict" ->
            DictV([key \in DOMAIN template.v |-> RenderTemplate(template.v[key], variables)])
      [] template.k = "list" ->
            ListV([i \in 1..Len(template.v) |-> RenderTemplate(template.v[i], variables)])
      [] OTHER -> template

\* the pieces the templates are made of
Pieces ==
    {<<"{", "{", "a", "}", "}">>, <<"{", "{", " ", "n", " ", "}", "}">>,
     <<"{", "{", "d", "}", "}">>, <<"{", "{", "d", ".", " ", "b", "}", "}">>,
     <<"{", "{", "l", ".", "1", "}", "}">>, <<"{", "{", "l", ".", "z", "}", "}">>,
     <<"{", "{", "x", "}", "}">>, <<"{", "{", " ", "}", "}">>, <<"{", "{", "}", "}">>,
     <<"{">>, <<"}">>, <<"x">>, <<" ">>}
RECURSIVE TemplateStrings(_)
TemplateStrings(n) ==
    IF n = 0 THEN {<<>>}
    ELSE TemplateStrings(n - 1)
         \cup {t \o piece : t \in TemplateStrings(n - 1), piece \in Pieces}
Templates ==
    {CharsV(t) : t \in TemplateStrings(MaxPieces)}
    \cup {ListV(<<CharsV(t), IntV(5), NoneV>>) : t \in TemplateStrings(MaxPieces)}
    \cup {DictV((<<"k">> :> ListV(<<CharsV(t)>>)) @@ (<<"j">> :> BoolV(TRUE))) :
             t \in TemplateStrings(MaxPieces)}
VariableBags ==
    {DictV((<<"a">> :> CharsV(<<"h", "i">>)) @@ (<<"n">> :> IntV(7))
           @@ (<<"d">> :> DictV(<<"b">> :> IntV(12)))
           @@ (<<"l">> :> ListV(<<CharsV(<<"p">>), BoolV(TRUE)>>))),
     DictV((<<"a">> :> NoneV) @@ (<<"n">> :> IntV(0))
           @@ (<<"d">> :> CharsV(<<"{", "{", "a", "}", "}">>))
           @@ (<<"l">> :> DictV(<<"z">> :> ListV(<<>>)))),
     EmptyDict}

\* ------------------------------------------------------------------ state
\* the run of one routine
VARIABLES actions, handlerRegistered, startUrl, pageUrl, pc, index, results,
          context, calls, trace, dispatches, invocations, raised, response
\* one call of a builder: what it is given and what it answers
VARIABLES call, answer
\* the registry of browser sessions, the browsers launched, the calls of
\* open_webpage under way and the last thing that happened
VARIABLES _SESSIONS, browsers, opens, last
\* the routines table, the mutation requests under way and the last reply
VARIABLES stored, requests, reply
\* the dict objects of the runs under way, the context object of each run
\* (0 when the run has not started), the merges made and the last of them
VARIABLES heap, contexts, merges, merged

runVars == <<actions, handlerRegistered, startUrl, pageUrl, pc, index, results,
             context, calls, trace, dispatches, invocations, raised, response>>
buildVars == <<call, answer>>
browserVars == <<_SESSIONS, browsers, opens, last>>
routerVars == <<stored, requests, reply>>
heapVars == <<heap, contexts, merges, merged>>
vars == <<runVars, buildVars, browserVars, routerVars, heapVars>>

\* what each part leaves alone
besidesRun == <<buildVars, browserVars, routerVars, heapVars>>
besidesBuild == <<runVars, browserVars, routerVars, heapVars>>
besidesBrowser == <<runVars, buildVars, routerVars, heapVars>>
besidesRouter == <<runVars, buildVars, browserVars, heapVars>>
besidesHeap == <<runVars, buildVars, browserVars, routerVars>>

\* no dict object exists
NoHeap ==
    /\ heap = <<>>
    /\ contexts = [r \in Runs |-> 0]
    /\ merges = 0
    /\ merged = NoMerge

\* no browser session exists
NoBrowser ==
    /\ _SESSIONS = [k \in {} |-> 0]
    /\ browsers = <<>>
    /\ opens = [c \in Callers |-> NotCalling]
    /\ last = NothingYet

\* no routine is stored and no request is under way
NoRouter ==
    /\ stored = [r \in {} |-> 0]
    /\ requests = [c \in Clients |-> NoRequest]
    /\ reply = NoReply

\* no builder is called
NoCall == [fn |-> "none"]
Pending == [raised |-> NoExc, step |-> StrV("pending")]
NoBuild == call = NoCall /\ answer = Pending

\* no routine is run
NoRun ==
    /\ actions = <<>> /\ handlerRegistered = TRUE /\ startUrl = "" /\ pageUrl = ""
    /\ pc = "idle" /\ index = 0 /\ results = <<>> /\ context = EmptyDict
    /\ calls = <<>> /\ trace = <<>> /\ dispatches = <<>> /\ invocations = <<>>
    /\ raised = NoExc
    /\ response = 0

InitWith(routines, handlers) ==
    /\ actions \in routines
    /\ handlerRegistered \in handlers
    /\ startUrl \in StartUrls
    /\ pageUrl = startUrl
    /\ pc = "begin"
    /\ index = 0
    /\ results = <<>>
    /\ context = EmptyDict
    /\ calls = <<>>
    /\ trace = <<>>
    /\ dispatches = <<>>
    /\ invocations = <<>>
    /\ raised = NoExc
    /\ response = 0
    /\ NoBuild /\ NoBrowser /\ NoRouter /\ NoHeap

Init == InitWith(Routines, BOOLEAN)
InitChain == InitWith(ChainRoutines, {TRUE})
InitStored == InitWith(StoredRoutines, BOOLEAN)

\* execute_scraping_routine up to the loop: parse the stored actions, then
\* navigate when the page is blank
Begin ==
    /\ pc = "begin"
    /\ LET parsed == _parse_actions(actions)
       IN IF parsed.raised /= NoExc
          THEN /\ pc' = "raised"
               /\ raised' = parsed.raised
               /\ UNCHANGED <<pageUrl, calls, trace>>
          ELSE IF ShouldNavigate(pageUrl)
          THEN \E out \in PageOutcomes :
                  /\ calls' = Append(calls, PageCall("goto", -1, "", StrV(RoutineUrl), out))
                  /\ trace' = Append(trace, Dispatched("page", -1))
                  /\ IF out = NoExc
                     THEN /\ pageUrl' = RoutineUrl
                          /\ pc' = "loop"
                          /\ raised' = raised
                     ELSE /\ pc' = "raised"
                          /\ raised' = out
                          /\ pageUrl' = pageUrl
          ELSE /\ pc' = "loop"
               /\ UNCHANGED <<pageUrl, calls, trace, raised>>
    /\ UNCHANGED <<actions, handlerRegistered, startUrl, index, results, context, dispatches,
                   invocations, response>>
    /\ UNCHANGED besidesRun

IsFlowAction(action) ==
    action.type \notin {"click", "fill", "select", "wait"}
    /\ _coerce_int(MGet(action.metadata, "power_automate_flow_id")) /= NoneV

\* the HTTP outcomes that matter to a step: only a flow action run with
\* the handler dispatches requests
OutcomesFor(action, registered, outcomes) ==
    IF registered /\ IsFlowAction(action) THEN outcomes ELSE {Http("timeout", 0, NoneV, "")}

\* the loop body's effect on the run: the result is appended, the context
\* and the traces are carried on
Record(step, out1) ==
    /\ results' = Append(results, step.result)
    /\ context' = step.context
    /\ calls' = calls \o step.calls
    /\ trace' = trace \o step.trace
    /\ dispatches' = dispatches \o step.dispatches
    /\ invocations' = IF step.handled
                      THEN Append(invocations,
                                  [index |-> index, result |-> step.invocation,
                                   dispatched |-> step.dispatches /= <<>>,
                                   outcome |-> out1])
                      ELSE invocations

\* one iteration of the loop of execute_scraping_routine
ExecuteSingleAction ==
    /\ pc = "loop"
    /\ index < Len(actions)
    /\ \E pageOut \in PageOutcomes,
          out1 \in OutcomesFor(actions[index + 1], handlerRegistered, HttpOutcomes),
          out2 \in OutcomesFor(actions[index + 1], handlerRegistered, FailureFlowOutcomes) :
            Record(_execute_single_action(index, actions[index + 1], Credentials, context,
                                          handlerRegistered, User, pageOut, <<out1, out2>>),
                   out1)
    /\ index' = index + 1
    /\ UNCHANGED <<actions, handlerRegistered, startUrl, pageUrl, pc, raised, response>>
    /\ UNCHANGED besidesRun

\* the return of execute_scraping_routine once the list is exhausted
Return ==
    /\ pc = "loop"
    /\ index = Len(actions)
    /\ pc' = "returned"
    /\ UNCHANGED <<actions, handlerRegistered, startUrl, pageUrl, index, results, context,
                   calls, trace, dispatches, invocations, raised, response>>
    /\ UNCHANGED besidesRun

\* ScrapingStepResult: the status of a step must be one of the Literal's values
ValidStepResult(r) == r.status \in StepStatuses /\ r.type \in ActionTypes
\* the captured_text a step reports (absent from the executor's dict, so the
\* schema default applies)
CapturedText(r) == NoneV

\* the router builds ScrapingExecutionResponse from the outcome
RouterRespond ==
    /\ pc = "returned"
    /\ pc' = "responded"
    /\ response' = IF \A i \in 1..Len(results) : ValidStepResult(results[i])
                   THEN 200 ELSE 500
    /\ UNCHANGED <<actions, handlerRegistered, startUrl, pageUrl, index, results, context,
                   calls, trace, dispatches, invocations, raised>>
    /\ UNCHANGED besidesRun

\* an exception that escaped the executor escapes the endpoint
RouterPropagate ==
    /\ pc = "raised"
    /\ pc' = "failed"
    /\ response' = 500
    /\ UNCHANGED <<actions, handlerRegistered, startUrl, pageUrl, index, results, context,
                   calls, trace, dispatches, invocations, raised>>
    /\ UNCHANGED besidesRun

Next == Begin \/ ExecuteSingleAction \/ Return \/ RouterRespond \/ RouterPropagate

Spec == Init /\ [][Next]_vars
SpecChain == InitChain /\ [][Next]_vars
SpecStored == InitStored /\ [][Next]_vars

\* ------------------------------------------------- the builders, called once
InitBuild ==
    /\ NoRun /\ NoBrowser /\ NoRouter /\ NoHeap
    /\ call \in [fn : {"build_action_step"}, html_snippet : Snippets, action_hint : Hints,
                  value : FillValues]
              \cup [fn : {"_detect_action_type"}, instruction : Instructions]
    /\ answer = Pending

\* a call of build_action_step
BuildActionStep ==
    /\ call.fn = "build_action_step" /\ answer = Pending
    /\ answer' = build_action_step(call.html_snippet, call.action_hint, call.value)
    /\ UNCHANGED <<call, besidesBuild>>

\* a call of _detect_action_type
DetectActionType ==
    /\ call.fn = "_detect_action_type" /\ answer = Pending
    /\ answer' = [raised |-> NoExc, step |-> StrV(_detect_action_type(call.instruction))]
    /\ UNCHANGED <<call, besidesBuild>>

NextBuild == BuildActionStep \/ DetectActionType
SpecBuild == InitBuild /\ [][NextBuild]_vars

\* ------------------------------------------- value resolution, called once
\* the metadata of a fill action, a field being left out when it is None
WithField(fields, name, value) ==
    IF value.k = "none" THEN fields ELSE (<<name>> :> value) @@ fields
FillMetadata(context_key, expects_secret, label, attributes, suggested_value) ==
    Meta(WithField(WithField(WithField(WithField(
             <<"attributes">> :> attributes,
             "context_key", context_key), "expects_secret", expects_secret),
             "label", label), "suggested_value", suggested_value))

Chars(word) == CharsV(word)
ContextKeys == {NoneV, KeyV(<<"otp">>), KeyV(<<"mfa", "code">>), IntV(7)}
ResolveContexts ==
    {EmptyDict, DictV(<<"otp">> :> StrV("123456")), DictV(<<"otp">> :> IntV(42)),
     DictV(<<"otp">> :> NoneV),
     DictV(<<"mfa">> :> DictV(<<"code">> :> StrV("9")))}
InputTexts == {NoneV, StrV(""), StrV("typed")}
SecretFlags == {NoneV, BoolV(TRUE), BoolV(FALSE)}
Labels ==
    {NoneV, Chars(<<"P", "a", "s", "s", "w", "o", "r", "d">>),
     Chars(<<"E", "m", "a", "i", "l", " ", "o", "r", " ", "p", "a", "s", "s", "w", "o", "r", "d">>),
     Chars(<<"Y", "o", "u", "r", " ", "E", "M", "A", "I", "L">>),
     Chars(<<"N", "a", "m", "e">>)}
w_email == <<"e", "m", "a", "i", "l">>
w_user_email == <<"u", "s", "e", "r", "_", "E", "m", "a", "i", "l">>
w_pwd == <<"l", "o", "g", "i", "n", "-", "P", "W", "D">>
w_passcode == <<"p", "a", "s", "s", "c", "o", "d", "e">>
w_email_pass == <<"e", "m", "a", "i", "l", "-", "p", "a", "s", "s">>
w_q == <<"q">>
w_number == <<"n", "u", "m", "b", "e", "r">>
FieldAttributes ==
    {EmptyDict,
     DictV(<<"type">> :> Chars(c_password)),
     DictV((<<"type">> :> Chars(c_email)) @@ (<<"name">> :> Chars(w_q))),
     DictV(<<"name">> :> Chars(w_user_email)),
     DictV(<<"id">> :> Chars(w_pwd)),
     DictV((<<"name">> :> Chars(w_email)) @@ (<<"id">> :> Chars(w_passcode))),
     DictV((<<"name">> :> Chars(w_passcode)) @@ (<<"placeholder">> :> Chars(w_email))),
     DictV(<<"aria-label">> :> Chars(w_email_pass)),
     DictV((<<"type">> :> Chars(w_number)) @@ (<<"data-testid">> :> Chars(w_email))),
     DictV((<<"type">> :> Chars(w_number)) @@ (<<"name">> :> Chars(w_email))
           @@ (<<"placeholder">> :> Chars(w_pwd))),
     DictV((<<"type">> :> Chars(c_text)) @@ (<<"name">> :> Chars(w_q))),
     DictV(<<"name">> :> IntV(3))}
SuggestedValues == {NoneV, StrV("suggested"), IntV(5)}

FillActions ==
    {Action("fill", "#field", input_text,
            FillMetadata(context_key, expects_secret, label, attributes, suggested_value)) :
         input_text \in InputTexts, context_key \in ContextKeys,
         expects_secret \in SecretFlags, label \in Labels,
         attributes \in FieldAttributes, suggested_value \in SuggestedValues}

InitResolve ==
    /\ NoRun /\ NoBrowser /\ NoRouter /\ NoHeap
    /\ call \in [fn : {"_resolve_input_value"}, action : FillActions,
                  context : ResolveContexts]
    /\ answer = Pending

\* a call of _resolve_input_value with the routine's credentials
ResolveInputValue ==
    /\ call.fn = "_resolve_input_value" /\ answer = Pending
    /\ answer' = [raised |-> NoExc,
                  step |-> _resolve_input_value(call.action, Credentials, call.context)]
    /\ UNCHANGED <<call, besidesBuild>>

NextResolve == ResolveInputValue
SpecResolve == InitResolve /\ [][NextResolve]_vars

\* ------------------------------------------------- render_template, called once
InitRender ==
    /\ NoRun /\ NoBrowser /\ NoRouter /\ NoHeap
    /\ call \in [fn : {"render_template"}, template : Templates, variables : VariableBags]
    /\ answer = Pending

RenderTemplateCalled ==
    /\ call.fn = "render_template" /\ answer = Pending
    /\ answer' = [raised |-> NoExc, step |-> RenderTemplate(call.template, call.variables)]
    /\ UNCHANGED <<call, besidesBuild>>

NextRender == RenderTemplateCalled
SpecRender == InitRender /\ [][NextRender]_vars

\* ------------------------------------------------ the contexts of the runs
InitContexts == NoRun /\ NoBuild /\ NoBrowser /\ NoRouter /\ NoHeap

\* execute_scraping_routine reaches its loop: the run has its context
StartRun(r) ==
    /\ contexts[r] = 0
    /\ heap' = Append(heap, EmptyMap)
    /\ contexts' = [contexts EXCEPT ![r] = NewContext(heap)]
    /\ merged' = Merge("start", r, EmptyDict, EmptyDict,
                       Unfold(heap', RefV(contexts'[r]), MaxDepth), NoneV, NoneV)
    /\ UNCHANGED <<merges, besidesHeap>>

\* the heap after the step of a custom action: _merge_context runs when the
\* handler's context_updates is not empty
AfterUpdates(built, target, updates) ==
    IF DOMAIN built[updates] /= {}
    THEN MergeIn(built, target, updates, DOMAIN built[updates]) ELSE built

\* the step once the handler has built its context_updates
MergeUpdates(r, metadata, body, built, updates) ==
    /\ heap' = AfterUpdates(built, contexts[r], updates)
    /\ merged' = Merge("merge", r, Unfold(heap, RefV(contexts[r]), MaxDepth),
                       Unfold(built, RefV(updates), MaxDepth),
                       Unfold(heap', RefV(contexts[r]), MaxDepth),
                       MGet(metadata, "store_response_as"), body)

\* the step once the flow has answered
HandleResponse(r, metadata, body, payload) ==
    MergeUpdates(r, metadata, body, BuildUpdates(payload.heap, metadata, payload.value),
                 Len(payload.heap) + 1)

\* a custom action of run r whose flow answers body: the handler returns
\* its context_updates and the executor merges them into the run's context
CustomAction(r, metadata, body) ==
    /\ contexts[r] /= 0 /\ merges < MaxMerges
    /\ HandleResponse(r, metadata, body, AllocTree(heap, body))
    /\ merges' = merges + 1
    /\ UNCHANGED <<contexts, besidesHeap>>

RunStarted == \E r \in Runs : StartRun(r)
CustomActionRan ==
    \E r \in Runs, metadata \in StoreMetadata, body \in ResponseBodies :
        CustomAction(r, metadata, body)

NextContexts == RunStarted \/ CustomActionRan
SpecContexts == InitContexts /\ [][NextContexts]_vars

\* ------------------------------------------- the browser sessions at work
InitBrowser == NoRun /\ NoBuild /\ NoRouter /\ NoHeap /\ NoBrowser

\* open_webpage up to its first suspension: close_browser_session pops the
\* session registered under the key
OpenWebpage(c, invoked_by, session_id) ==
    LET key == _session_key(invoked_by, session_id)
    IN /\ opens[c].at = "idle"
       /\ Len(browsers) + Cardinality({d \in Callers : opens[d].at /= "idle"}) < MaxBrowsers
       /\ opens' = [opens EXCEPT ![c] =
                       [at |-> IF key \in DOMAIN _SESSIONS THEN "closing" ELSE "launching",
                        user |-> invoked_by, session_id |-> session_id,
                        old |-> IF key \in DOMAIN _SESSIONS THEN _SESSIONS[key] ELSE 0]]
       /\ _SESSIONS' = Pop(_SESSIONS, key)
       /\ last' = Happened("open_called", invoked_by, session_id, key, 0)
       /\ UNCHANGED <<browsers, besidesBrowser>>

\* close_browser_session inside open_webpage: the popped session's browser
\* is shut down
ShutdownPrevious(c) ==
    /\ opens[c].at = "closing"
    /\ browsers' = [browsers EXCEPT ![opens[c].old] = _shutdown_browser(@)]
    /\ opens' = [opens EXCEPT ![c].at = "launching"]
    /\ last' = Happened("open_closed_previous", opens[c].user, opens[c].session_id,
                        _session_key(opens[c].user, opens[c].session_id), opens[c].old)
    /\ UNCHANGED <<_SESSIONS, besidesBrowser>>

\* the rest of open_webpage: launch, new_page and goto, then the session is
\* registered with its cleanup handlers and the call returns; when the
\* launch or the navigation fails the call raises and registers nothing
Navigate(c, ok) ==
    LET key == _session_key(opens[c].user, opens[c].session_id)
    IN /\ opens[c].at = "launching"
       /\ opens' = [opens EXCEPT ![c] = NotCalling]
       /\ IF ok
          THEN /\ browsers' = Append(browsers, BrowserSession(key))
               /\ _SESSIONS' = (key :> (Len(browsers) + 1)) @@ _SESSIONS
               /\ last' = Happened("open_returned", opens[c].user, opens[c].session_id, key,
                                   Len(browsers) + 1)
          ELSE /\ last' = Happened("open_raised", opens[c].user, opens[c].session_id, key, 0)
               /\ UNCHANGED <<browsers, _SESSIONS>>
       /\ UNCHANGED besidesBrowser

\* close_browser_session called on its own
CloseBrowserSession(user_id, session_id) ==
    LET key == _session_key(user_id, session_id)
    IN /\ key \in DOMAIN _SESSIONS
       /\ _SESSIONS' = Pop(_SESSIONS, key)
       /\ browsers' = [browsers EXCEPT ![_SESSIONS[key]] = _shutdown_browser(@)]
       /\ last' = Happened("closed", user_id, session_id, key, _SESSIONS[key])
       /\ UNCHANGED <<opens, besidesBrowser>>

\* the page's "close" or the browser's "disconnected" event fires on a
\* session that was registered: _schedule_cleanup runs
Emit(n, loop_running) ==
    /\ browsers[n].events < MaxEvents
    /\ browsers' = [browsers EXCEPT ![n] =
                       [_schedule_cleanup(@, loop_running) EXCEPT !.events = @ + 1]]
    /\ last' = Happened("event", browsers[n].key[1], StrV(browsers[n].key[2]),
                        browsers[n].key, n)
    /\ UNCHANGED <<_SESSIONS, opens, besidesBrowser>>

\* the task _cleanup of a session runs up to its await: the session's key
\* is popped from the registry
Cleanup(n) ==
    /\ browsers[n].pending
    /\ _SESSIONS' = Pop(_SESSIONS, browsers[n].key)
    /\ browsers' = [browsers EXCEPT ![n].pending = FALSE, ![n].cleaning = TRUE]
    /\ last' = Happened("cleanup_removed", browsers[n].key[1], StrV(browsers[n].key[2]),
                        browsers[n].key, n)
    /\ UNCHANGED <<opens, besidesBrowser>>

\* the rest of _cleanup: the session's browser is shut down
CleanupShutdown(n) ==
    /\ browsers[n].cleaning
    /\ browsers' = [browsers EXCEPT ![n] = [_shutdown_browser(@) EXCEPT !.cleaning = FALSE]]
    /\ last' = Happened("cleanup", browsers[n].key[1], StrV(browsers[n].key[2]),
                        browsers[n].key, n)
    /\ UNCHANGED <<_SESSIONS, opens, besidesBrowser>>

OpenCalled == \E c \in Callers, u \in BrowserUsers, s \in SessionIds : OpenWebpage(c, u, s)
PreviousShutDown == \E c \in Callers : ShutdownPrevious(c)
Navigated == \E c \in Callers, ok \in BOOLEAN : Navigate(c, ok)
SessionClosed == \E u \in BrowserUsers, s \in SessionIds : CloseBrowserSession(u, s)
EventEmitted == \E n \in DOMAIN browsers, loop_running \in BOOLEAN : Emit(n, loop_running)
CleanupRan == \E n \in DOMAIN browsers : Cleanup(n)
CleanupShutDown == \E n \in DOMAIN browsers : CleanupShutdown(n)

NextBrowser ==
    OpenCalled \/ PreviousShutDown \/ Navigated \/ SessionClosed \/ EventEmitted
    \/ CleanupRan \/ CleanupShutDown
SpecBrowser == InitBrowser /\ [][NextBrowser]_vars

\* the stored list of a routine, empty for an id without a row
StoredList(routine_id) ==
    IF routine_id \in DOMAIN stored THEN stored[routine_id].actions ELSE <<>>


InitRouter ==
    /\ NoRun /\ NoBuild /\ NoBrowser /\ NoHeap
    /\ stored \in {(1 :> [user_id |-> 1, actions |-> created]) : created \in CreatedLists}
    /\ requests = [c \in Clients |-> NoRequest]
    /\ reply = NoReply

\* append_scraping_action up to the await of the body: the routine is
\* loaded for its owner, anybody else gets 404
AppendRequest(c, user, routine_id) ==
    /\ pc = "idle" /\ requests[c].at = "idle"
    /\ Len(StoredList(routine_id)) < MaxStored
    /\ IF _get_owned_routine(stored, routine_id, user)
       THEN /\ requests' = [requests EXCEPT ![c] =
                               [at |-> "append", user |-> user, routine_id |-> routine_id,
                                action_index |-> 0, actions |-> stored[routine_id].actions]]
            /\ UNCHANGED reply
       ELSE /\ reply' = Reply("append", user, routine_id, 404)
            /\ UNCHANGED requests
    /\ UNCHANGED <<stored, besidesRouter>>

\* the rest of append_scraping_action: the body is parsed, the action is
\* generated, appended to the loaded list and committed
AppendCommit(c, body) ==
    /\ requests[c].at = "append"
    /\ requests' = [requests EXCEPT ![c] = NoRequest]
    /\ IF _parse_relaxed_payload(body) /= 200
       THEN /\ reply' = Reply("append", requests[c].user, requests[c].routine_id,
                              _parse_relaxed_payload(body))
            /\ UNCHANGED stored
       ELSE /\ stored' = [stored EXCEPT ![requests[c].routine_id].actions =
                             Append(requests[c].actions, _generate_action(body))]
            /\ reply' = Reply("append", requests[c].user, requests[c].routine_id, 200)
    /\ UNCHANGED besidesRouter

\* patch_scraping_action up to the await of the body: ownership, then the
\* index against the loaded list
PatchRequest(c, user, routine_id, action_index) ==
    /\ pc = "idle" /\ requests[c].at = "idle"
    /\ IF _get_owned_routine(stored, routine_id, user)
          /\ ~(action_index < 0 \/ action_index >= Len(stored[routine_id].actions))
       THEN /\ requests' = [requests EXCEPT ![c] =
                               [at |-> "patch", user |-> user, routine_id |-> routine_id,
                                action_index |-> action_index,
                                actions |-> stored[routine_id].actions]]
            /\ UNCHANGED reply
       ELSE /\ reply' = Reply("patch", user, routine_id, 404)
            /\ UNCHANGED requests
    /\ UNCHANGED <<stored, besidesRouter>>

\* the rest of patch_scraping_action
PatchCommit(c, body) ==
    /\ requests[c].at = "patch"
    /\ requests' = [requests EXCEPT ![c] = NoRequest]
    /\ IF _parse_relaxed_payload(body) /= 200
       THEN /\ reply' = Reply("patch", requests[c].user, requests[c].routine_id,
                              _parse_relaxed_payload(body))
            /\ UNCHANGED stored
       ELSE /\ stored' = [stored EXCEPT ![requests[c].routine_id].actions =
                             [requests[c].actions EXCEPT ![requests[c].action_index + 1] =
                                 _generate_action(body)]]
            /\ reply' = Reply("patch", requests[c].user, requests[c].routine_id, 200)
    /\ UNCHANGED besidesRouter

\* the endpoint execute_scraping_routine up to the call of the executor:
\* ownership, then the page of the user's session, opened on the routine's
\* url when there is none (502 when that fails), and status 0 stands for a
\* request handed to the executor; the runs explored start
\* when no append or patch is waiting for its body
ExecuteRequest(user, routine_id, session_page, opened) ==
    /\ pc = "idle" /\ \A c \in Clients : requests[c].at = "idle"
    /\ IF ~_get_owned_routine(stored, routine_id, user)
       THEN /\ reply' = Reply("execute", user, routine_id, 404)
            /\ UNCHANGED <<actions, startUrl, pageUrl, pc>>
       ELSE IF session_page = "none" /\ ~opened
       THEN /\ reply' = Reply("execute", user, routine_id, 502)
            /\ UNCHANGED <<actions, startUrl, pageUrl, pc>>
       ELSE /\ actions' = stored[routine_id].actions
            /\ startUrl' = IF session_page = "none" THEN RoutineUrl ELSE session_page
            /\ pageUrl' = IF session_page = "none" THEN RoutineUrl ELSE session_page
            /\ pc' = "begin"
            /\ reply' = Reply("execute", user, routine_id, 0)
    /\ UNCHANGED <<handlerRegistered, index, results, context, calls, trace, dispatches,
                   invocations, raised, response>>
    /\ UNCHANGED <<stored, requests, buildVars, browserVars, heapVars>>

AppendRequested ==
    \E c \in Clients, user \in RouterUsers, routine_id \in RequestedIds :
        AppendRequest(c, user, routine_id)
AppendCommitted == \E c \in Clients, body \in Bodies : AppendCommit(c, body)
PatchRequested ==
    \E c \in Clients, user \in RouterUsers, routine_id \in RequestedIds :
        \E action_index \in -1..Len(StoredList(routine_id)) :
            PatchRequest(c, user, routine_id, action_index)
PatchCommitted == \E c \in Clients, body \in Bodies : PatchCommit(c, body)
ExecuteRequested ==
    \E user \in RouterUsers, routine_id \in RequestedIds,
       session_page \in {"none"} \cup StartUrls, opened \in BOOLEAN :
        ExecuteRequest(user, routine_id, session_page, opened)

NextRouter ==
    AppendRequested \/ AppendCommitted \/ PatchRequested \/ PatchCommitted
    \/ ExecuteRequested \/ Begin \/ ExecuteSingleAction \/ Return \/ RouterRespond
    \/ RouterPropagate
SpecRouter == InitRouter /\ [][NextRouter]_vars

\* ------------------------------------------------------------ properties
Returned == pc \in {"returned", "responded"}
Propagated == pc \in {"raised", "failed"}

\* the positions in calls of the page calls made for the action at index i
CallsOf(i) == {c \in 1..Len(calls) : calls[c].index = i}

\* the context the custom actions before index j have left, rebuilt from
\* the recorded handler results
RECURSIVE ContextFrom(_, _, _)
ContextFrom(ctx, invs, j) ==
    IF invs = <<>> THEN ctx
    ELSE LET updates == invs[1].result.context_updates
         IN ContextFrom(IF invs[1].index < j /\ Truthy(updates)
                        THEN _merge_context(ctx, updates) ELSE ctx,
                        Tail(invs), j)
ContextBefore(j) == ContextFrom(EmptyDict, invocations, j)

C2_PrimitiveErrorStaysLocal ==
    \A c \in 1..Len(calls) :
        (calls[c].index >= 0 /\ calls[c].raised /= NoExc) =>
            LET i == calls[c].index
            IN /\ Len(results) > i
               /\ results[i + 1].status = "error"
               /\ results[i + 1].detail = StrV(calls[c].raised.msg)
               /\ ~Propagated
               /\ Returned =>
                    /\ Len(results) = Len(actions)
                    /\ \A j \in (i + 1)..(Len(actions) - 1) :
                          actions[j + 1].type \in {"click", "wait"} => CallsOf(j) /= {}

C2_Witness ==
    /\ pc = "returned"
    /\ \E c \in 1..Len(calls) :
          /\ calls[c].index = 0
          /\ calls[c].raised /= NoExc
          /\ results[1].detail = StrV(calls[c].raised.msg)
    /\ Len(results) >= 2
    /\ results[2].type = "click"
    /\ results[2].status = "success"

\* C3 (as claimed): no exception ever leaves execute_scraping_routine; every
\* run-time problem, a failing initial goto included, ends up in the results.
C3_NeverPropagates == ~Propagated

\* C4: a fill or select step whose value resolves to None is skipped, makes
\* no page call, and does not stop the run: the exception-free return still
\* carries one result per action.
C4_UnresolvedValueIsSkipped ==
    \A k \in 1..Len(results) :
        LET action == actions[k]
            ctx == ContextBefore(k - 1)
            value == IF action.type = "fill"
                     THEN _resolve_input_value(action, Credentials, ctx)
                     ELSE _resolve_select_value(action, Credentials, ctx)
        IN (action.type \in {"fill", "select"} /\ value = NoneV) =>
              /\ results[k].status = "skipped"
              /\ results[k].input_text = NoneV
              /\ CallsOf(k - 1) = {}
              /\ ~Propagated
              /\ Returned => Len(results) = Len(actions)

C4_Witness ==
    /\ pc = "returned"
    /\ Len(results) >= 2
    /\ results[1].type = "fill"
    /\ results[1].status = "skipped"
    /\ results[2].type \in {"fill", "select"}
    /\ results[2].status = "success"
    /\ CallsOf(0) = {}
    /\ CallsOf(1) /= {}

\* C5 (as claimed): every step result has status success, error or skipped,
\* also for custom actions whose handler result is adopted.
C5_StatusIsOneOfThree ==
    \A k \in 1..Len(results) : results[k].status \in StepStatuses

\* the recorded handler results of the custom actions before index j whose
\* context updates have the top-level key of path
Touchers(path, j) ==
    {n \in 1..Len(invocations) :
        /\ invocations[n].index < j
        /\ <<path[1]>> \in DOMAIN invocations[n].result.context_updates.v}
LastOf(S) == CHOOSE n \in S : \A m \in S : m <= n
IsScalar(x) == x.k \in {"str", "chars", "key", "tmpl", "int", "bool"}

C7_TextIsCapturedAndStored ==
    \A k \in 1..Len(results) :
        LET key == MGet(actions[k].metadata, "store_text_as")
        IN key.k = "key" =>
              /\ CapturedText(results[k]) /= NoneV
              /\ _lookup_context_value(context, key.v) /= NoneV

\* the custom steps the handler did not take: none registered, or it
\* returned None because the action names no flow
Unhandled(k) ==
    /\ actions[k].type = "custom"
    /\ ~handlerRegistered \/ ~IsFlowAction(actions[k])

\* C8 (as claimed): an unhandled custom step with metadata.script present
\* calls page.evaluate(script) and is success; without script it is skipped
\* with detail "No executable script provided"; the run goes on either way.
C8_ScriptRunsOrStepIsSkipped ==
    \A k \in 1..Len(results) :
        Unhandled(k) =>
            /\ IF <<"script">> \in DOMAIN actions[k].metadata.v
               THEN /\ \E c \in CallsOf(k - 1) :
                          /\ calls[c].op = "evaluate"
                          /\ calls[c].value = MGet(actions[k].metadata, "script")
                    /\ results[k].status = "success"
               ELSE /\ results[k].status = "skipped"
                    /\ results[k].detail = StrV("No executable script provided")
            /\ Returned => Len(results) = Len(actions)

\* C8 (amended): an unhandled custom step with a non-empty metadata.script
\* calls page.evaluate(script) once and is success when the call returns,
\* error with the exception's text when it raises; with no script or an
\* empty one it makes no page call and is skipped with detail
\* "No executable script provided"; the run goes on either way.
C8_ScriptRunsUnlessEmpty ==
    \A k \in 1..Len(results) :
        Unhandled(k) =>
            LET script == MGet(actions[k].metadata, "script")
            IN /\ IF Truthy(script)
                  THEN /\ Cardinality(CallsOf(k - 1)) = 1
                       /\ \A c \in CallsOf(k - 1) :
                             /\ calls[c].op = "evaluate"
                             /\ calls[c].value = script
                             /\ calls[c].raised = NoExc => results[k].status = "success"
                             /\ calls[c].raised /= NoExc =>
                                   /\ results[k].status = "error"
                                   /\ results[k].detail = StrV(calls[c].raised.msg)
                  ELSE /\ CallsOf(k - 1) = {}
                       /\ results[k].status = "skipped"
                       /\ results[k].detail = StrV("No executable script provided")
               /\ ~Propagated
               /\ Returned => Len(results) = Len(actions)

C8_Witness ==
    /\ pc = "returned"
    /\ Len(results) >= 2
    /\ actions[1] = CustomScript
    /\ results[1].status = "success"
    /\ \E c \in CallsOf(0) : calls[c].op = "evaluate"
    /\ actions[2] = CustomBare
    /\ results[2].status = "skipped"

\* C9: page.goto(routine.url) is called exactly once, before anything else,
\* when the page's URL at the start of the run is empty or about:blank, and
\* never when the page shows another URL.
C9_NavigatesOnlyFromBlankPage ==
    LET gotos == {c \in 1..Len(calls) : calls[c].op = "goto"}
    IN /\ pc /= "begin" =>
            IF startUrl \in {"", "about:blank"}
            THEN /\ gotos = {1}
                 /\ calls[1].value = StrV(RoutineUrl)
            ELSE gotos = {}
       /\ pc = "begin" => calls = <<>>

C9_Witness ==
    /\ pc = "returned"
    /\ startUrl = "about:blank"
    /\ Len(results) >= 2
    /\ Len(calls) >= 3
    /\ calls[1].op = "goto"
    /\ calls[2].op /= "goto"

\* C10 (as claimed): a flow invocation is reported success only for a 2xx
\* response; a client timeout is reported timeout; any other response and
\* any transport error is reported error.
C10_SuccessOnlyFor2xx ==
    \A n \in 1..Len(invocations) :
        LET inv == invocations[n]
            ok == inv.outcome.kind = "response"
                  /\ inv.outcome.status_code \in 200..299
        IN inv.dispatched =>
              /\ inv.result.status = "success" => ok
              /\ inv.outcome.kind = "timeout" => inv.result.status = "timeout"
              /\ (inv.outcome.kind = "http_error"
                  \/ (inv.outcome.kind = "response" /\ ~ok)) => inv.result.status = "error"

\* ------------------------------------------------- properties of the builders
Range(q) == {q[i] : i \in DOMAIN q}
BuildAnswered == call.fn = "build_action_step" /\ answer /= Pending
IsStart(ev) == ev.e \in {"starttag", "startendtag"}
\* the positions of the first element of the snippet (none or one)
FirstElementAt(events) ==
    {i \in DOMAIN events : IsStart(events[i]) /\ \A j \in 1..(i - 1) : ~IsStart(events[j])}
\* the hint after trimming and lower-casing
HintKey == Lower(Strip(call.action_hint))

\* C16: when the first element of the snippet has a non-empty id attribute,
\* the selector of the step build_action_step returns is "#" followed by
\* that id, whatever other attributes the element has.
C16_IdGivesTheSelector ==
    (BuildAnswered /\ answer.raised = NoExc) =>
        \A i \in FirstElementAt(call.html_snippet) :
            \A a \in DOMAIN call.html_snippet[i].attrs :
                LET attr == call.html_snippet[i].attrs[a]
                IN (attr[1] = "id" /\ Truthy(attr[2])) =>
                       /\ "selector" \in DOMAIN answer.step.v
                       /\ answer.step.v["selector"] = CharsV(<<"#">> \o attr[2].v)

C16_Witness ==
    /\ BuildAnswered /\ answer.raised = NoExc
    /\ \E i \in FirstElementAt(call.html_snippet) :
          /\ <<"id", CharsV(<<"m", "a", "i", "n">>)>> \in Range(call.html_snippet[i].attrs)
          /\ <<"class", CharsV(<<"b", "t", "n", " ", "p", "r", "i", "m", "a", "r", "y">>)>> \in Range(call.html_snippet[i].attrs)
    /\ answer.step.v["selector"] = CharsV(<<"#", "m", "a", "i", "n">>)

\* C17: for a snippet without any start tag, the hint wait gives exactly
\* {action: "wait", milliseconds: 1000}, and the hints click, fill and
\* select raise an error and give no step.
C17_NoElementWaitsOrFails ==
    (BuildAnswered /\ FirstElementAt(call.html_snippet) = {}) =>
        /\ HintKey = <<"w", "a", "i", "t">> =>
              /\ answer.raised = NoExc
              /\ answer.step = DictV(("action" :> StrV("wait")) @@ ("milliseconds" :> IntV(1000)))
        /\ HintKey \in {<<"c", "l", "i", "c", "k">>,
                        <<"f", "i", "l", "l">>,
                        <<"s", "e", "l", "e", "c", "t">>} =>
              answer.raised /= NoExc /\ answer.step = NoneV

C17_Witness ==
    /\ BuildAnswered /\ FirstElementAt(call.html_snippet) = {}
    /\ call.html_snippet /= <<>>
    /\ HintKey = <<"w", "a", "i", "t">>
    /\ answer.step.v["action"] = StrV("wait")

Unsupported == answer.raised = Exc("ValueError", "Unsupported action")
\* the keywords the four families are said to hold
ClaimedHints ==
    {<<"c", "l", "i", "c", "k">>,
     <<"p", "r", "e", "s", "s">>,
     <<"t", "a", "p">>,
     <<"s", "u", "b", "m", "i", "t">>,
     <<"c", "h", "o", "o", "s", "e">>,
     <<"s", "e", "l", "e", "c", "t">>,
     <<"p", "i", "c", "k">>,
     <<"f", "i", "l", "l">>,
     <<"e", "n", "t", "e", "r">>,
     <<"t", "y", "p", "e">>,
     <<"u", "p", "d", "a", "t", "e">>,
     <<"w", "r", "i", "t", "e">>,
     <<"i", "n", "p", "u", "t">>,
     <<"i", "n", "p", "u", "t", " ", "t", "e", "x", "t">>,
     <<"t", "y", "p", "e", " ", "t", "e", "x", "t">>,
     <<"w", "a", "i", "t">>,
     <<"p", "a", "u", "s", "e">>,
     <<"d", "e", "l", "a", "y">>,
     <<"w", "a", "i", "t", " ", "f", "o", "r", " ", "e", "l", "e", "m", "e", "n", "t">>,
     <<"w", "a", "i", "t", " ", "f", "o", "r", " ", "s", "e", "l", "e", "c", "t", "o", "r">>}
\* the keywords build_action_step tests for
AcceptedHints ==
    {<<"c", "l", "i", "c", "k">>,
     <<"p", "r", "e", "s", "s">>,
     <<"t", "a", "p">>,
     <<"i", "n", "p", "u", "t">>,
     <<"i", "n", "p", "u", "t", " ", "t", "e", "x", "t">>,
     <<"f", "i", "l", "l">>,
     <<"t", "y", "p", "e">>,
     <<"t", "y", "p", "e", " ", "t", "e", "x", "t">>,
     <<"w", "a", "i", "t">>,
     <<"w", "a", "i", "t", " ", "f", "o", "r", " ", "e", "l", "e", "m", "e", "n", "t">>,
     <<"w", "a", "i", "t", " ", "f", "o", "r", " ", "s", "e", "l", "e", "c", "t", "o", "r">>}

\* C18 (as stated): the unsupported-action error is raised exactly for the
\* hints that, trimmed and lower-cased, are none of click, press, tap,
\* submit, choose, select, pick, fill, enter, type, update, write, input,
\* input text, type text, wait, pause, delay, wait for element, wait for
\* selector.
C18_AllFourFamiliesAccepted ==
    BuildAnswered => (Unsupported <=> HintKey \notin ClaimedHints)

\* C18 (amended): the unsupported-action error is raised exactly for the
\* hints that, trimmed and lower-cased, are none of click, press, tap,
\* input, input text, fill, type, type text, wait, wait for element, wait
\* for selector; submit, the select family, enter, update, write, pause and
\* delay are refused.
C18_ElevenHintsAccepted ==
    BuildAnswered => (Unsupported <=> HintKey \notin AcceptedHints)

C18_Witness ==
    /\ BuildAnswered
    /\ call.action_hint /= HintKey /\ HintKey \in AcceptedHints
    /\ ~Unsupported

\* the positions in the keyword table of the keywords that occur in the
\* instruction, whatever its case
Occurring(instruction) ==
    {i \in DOMAIN _ACTION_KEYWORDS : Contains(Lower(instruction), _ACTION_KEYWORDS[i].keyword)}

\* C19: the classifier answers the type of the first keyword of the table,
\* in the table's order, that occurs in the instruction as a substring
\* whatever its case and wherever it stands; custom when none occurs.
C19_FirstKeywordOfTheTableWins ==
    (call.fn = "_detect_action_type" /\ answer /= Pending) =>
        LET occurring == Occurring(call.instruction)
        IN IF occurring = {} THEN answer.step = StrV("custom")
           ELSE \E i \in occurring :
                   /\ \A j \in occurring : i <= j
                   /\ answer.step = StrV(_ACTION_KEYWORDS[i].action_type)

C19_Witness ==
    /\ call.fn = "_detect_action_type" /\ answer /= Pending
    /\ call.instruction = <<"w", "a", "i", "t", "C", "l", "i", "c", "k">>
    /\ answer.step = StrV("click")

\* ------------------------------------------------ properties of the trace
\* the positions in the trace of the dispatches made for the action at index i
TraceOf(i) == {t \in DOMAIN trace : trace[t].index = i}
\* the trace runs through the actions in stored order
InStoredOrder == \A t, u \in DOMAIN trace : t < u => trace[t].index <= trace[u].index

\* C20 (as stated): the trace of page primitive calls and handler
\* invocations holds at most one dispatch per action, in stored order.
C20_OneDispatchPerAction ==
    /\ \A i \in 0..(Len(actions) - 1) : Cardinality(TraceOf(i)) <= 1
    /\ InStoredOrder

\* C20 (amended): the trace holds, per action, at most one invocation of
\* the handler and at most one page primitive call, the two together only
\* when the handler declined the action (it is then invoked first and the
\* script fallback follows); the dispatches of action i all precede those
\* of action j for i < j, and nothing is dispatched again after an error
\* or a skip.
C20_OneHandlerAndOnePageCallPerAction ==
    /\ \A i \in 0..(Len(actions) - 1) :
          /\ Cardinality({t \in TraceOf(i) : trace[t].kind = "page"}) <= 1
          /\ Cardinality({t \in TraceOf(i) : trace[t].kind = "handler"}) <= 1
          /\ Cardinality(TraceOf(i)) = 2 =>
                /\ \E t \in TraceOf(i) : trace[t].kind = "handler" /\ trace[t + 1].kind = "page"
                /\ actions[i + 1].type \notin {"click", "fill", "select", "wait"}
                /\ _handle_custom_action(actions[i + 1], Credentials, EmptyDict, User,
                                         <<>>).declined
          /\ i >= index => TraceOf(i) = {}
    /\ InStoredOrder

C20_Witness ==
    /\ Returned /\ Len(actions) = 2
    /\ results[1].status = "error" /\ results[2].status = "skipped"
    /\ Cardinality(TraceOf(0)) = 1 /\ TraceOf(1) = {}

\* ------------------------------------------------ the browser sessions
\* what get_active_page finds for (user, session_id): the number of the
\* session registered for them, 0 when there is none
Registered(user, session_id) ==
    IF _session_key(user, session_id) \in DOMAIN _SESSIONS
    THEN _SESSIONS[_session_key(user, session_id)] ELSE 0

\* the step leaves the entry of (user, session_id) as it was, and the
\* browser of that entry is not shut down by it
EntryKept(user, session_id) ==
    /\ Registered(user, session_id)' = Registered(user, session_id)
    /\ Registered(user, session_id) /= 0 =>
           browsers'[Registered(user, session_id)].shutdowns
               = browsers[Registered(user, session_id)].shutdowns

\* two session identifiers are the same value
SameIdentifier(s1, s2) == s1.k = s2.k /\ (s1.k = "str" => s1.v = s2.v)

\* the session an identifier names: an absent or empty one names "default"
NamedSession(session_id) == IF Truthy(session_id) THEN session_id.v ELSE "default"

\* C11 as stated: every step of open_webpage, of close_browser_session and
\* of the cleanup events on (user, s1) leaves the registry entry of
\* (user, s2) unchanged and its browser not shut down, for every session
\* identifier s2 different from s1
C11_OtherIdentifierUntouched ==
    [][\A user \in BrowserUsers, s2 \in SessionIds :
           (user = last'.user /\ ~SameIdentifier(s2, last'.session_id))
               => EntryKept(user, s2)]_vars

\* C11, amended: every step of open_webpage, of close_browser_session and of
\* the cleanup events on (user, s1) leaves the registry entry of (user, s2)
\* unchanged and its browser not shut down, for every s2 that names another
\* session than s1 once an absent or empty identifier is read as "default"
C11_OtherSessionUntouched ==
    [][\A user \in BrowserUsers, s2 \in SessionIds :
           (user = last'.user /\ NamedSession(s2) /= NamedSession(last'.session_id))
               => EntryKept(user, s2)]_vars

\* a session was just closed or cleaned up while the same user has another
\* session registered, whose browser is still running
C11_Witness ==
    /\ last.kind \in {"closed", "cleanup", "open_closed_previous"}
    /\ \E n \in DOMAIN browsers : browsers[n].cleanups = 1 /\ browsers[n].shutdowns >= 1
    /\ \E s2 \in SessionIds :
           /\ NamedSession(s2) /= NamedSession(last.session_id)
           /\ Registered(last.user, s2) /= 0
           /\ browsers[Registered(last.user, s2)].shutdowns = 0

\* C12: when open_webpage has just returned, the registry holds under the
\* key (user, session_id or "default") the session just launched, and every
\* other session that was registered under that key has been shut down
C12_OpenReplacesTheSession ==
    last.kind = "open_returned" =>
        /\ last.key = <<last.user, NamedSession(last.session_id)>>
        /\ last.key \in DOMAIN _SESSIONS /\ _SESSIONS[last.key] = last.session
        /\ \A n \in DOMAIN browsers :
               (n /= last.session /\ browsers[n].key = last.key)
                   => browsers[n].shutdowns >= 1

IssuedByAnotherUser ==
    /\ reply' /= reply
    /\ reply'.routine_id \in DOMAIN stored
    /\ reply'.user /= stored[reply'.routine_id].user_id

\* C14: an append, patch or execute request on a routine issued by a user
\* who does not own it is answered 404, leaves the stored action list
\* unchanged and invokes no page primitive; no request of such a user is
\* ever waiting for its body with the routine loaded
C14_OtherUsersGet404 ==
    [][/\ IssuedByAnotherUser =>
              /\ reply'.op \in {"append", "patch", "execute"} /\ reply'.status = 404
              /\ stored' = stored /\ requests' = requests
              /\ calls' = calls /\ trace' = trace /\ pc' = pc
       /\ \A c \in Clients :
              (requests'[c].at /= "idle" /\ requests'[c].routine_id \in DOMAIN stored)
                  => requests'[c].user = stored[requests'[c].routine_id].user_id]_vars

\* the other user was just refused the execution of a routine that has
\* actions; nothing ran
C14_Witness ==
    /\ reply.op = "execute" /\ reply.status = 404
    /\ reply.routine_id \in DOMAIN stored
    /\ reply.user /= stored[reply.routine_id].user_id
    /\ stored[reply.routine_id].actions /= <<>>
    /\ calls = <<>> /\ pc = "idle"

\* the step answers the append or patch request that client c issued for
\* the routine
Answered(c, op, routine_id) ==
    requests[c].at = op /\ requests[c].routine_id = routine_id /\ requests'[c].at = "idle"

\* C15: an answered append makes the stored list one longer, the new action
\* last and the earlier ones where they were; an answered patch at a valid
\* index replaces that position only and keeps the length; a request that
\* is refused (404 for an index outside the list, 400, 422) leaves the
\* stored list unchanged
C15_MutationsPreserveOrder ==
    [][/\ \A c \in Clients, routine_id \in RequestedIds :
              /\ (Answered(c, "append", routine_id) /\ reply'.status = 200) =>
                     /\ Len(StoredList(routine_id)') = Len(StoredList(routine_id)) + 1
                     /\ SubSeq(StoredList(routine_id)', 1, Len(StoredList(routine_id)))
                            = StoredList(routine_id)
                     /\ \E body \in Bodies :
                            /\ _parse_relaxed_payload(body) = 200
                            /\ StoredList(routine_id)'[Len(StoredList(routine_id)')]
                                   = _generate_action(body)
              /\ (Answered(c, "patch", routine_id) /\ reply'.status = 200) =>
                     /\ Len(StoredList(routine_id)') = Len(StoredList(routine_id))
                     /\ \A j \in 1..Len(StoredList(routine_id)) :
                            j /= requests[c].action_index + 1
                                => StoredList(routine_id)'[j] = StoredList(routine_id)[j]
              /\ ((Answered(c, "append", routine_id) \/ Answered(c, "patch", routine_id))
                      /\ reply'.status /= 200)
                     => stored' = stored
       /\ (reply' /= reply /\ reply'.op \in {"append", "patch"} /\ reply'.status = 404)
              => stored' = stored]_vars

\* ------------------------------------------------ the value a fill types
\* _resolve_input_value was called and has answered
Resolved == call.fn = "_resolve_input_value" /\ answer /= Pending

\* the six sources of the value in the order of the rule, each giving its
\* value or None
FromContext ==
    IF MGet(call.action.metadata, "context_key").k = "key"
    THEN LET found == LookupFrom(call.context, MGet(call.action.metadata, "context_key").v)
         IN IF found.k = "none" THEN NoneV ELSE StrV(PyStr(found))
    ELSE NoneV
FromInputText ==
    IF call.action.input_text.k = "str" /\ call.action.input_text.v /= ""
    THEN call.action.input_text ELSE NoneV
FromSecretFlag ==
    IF MGet(call.action.metadata, "expects_secret") = BoolV(TRUE)
    THEN StrV(Credentials.password) ELSE NoneV
FromLabel ==
    LET label == LoweredText(MGet(call.action.metadata, "label"))
    IN IF Contains(label, c_password) THEN StrV(Credentials.password)
       ELSE IF Contains(label, c_email) THEN StrV(Credentials.email)
       ELSE NoneV
FromAttributes ==
    LET attributes == MGet(call.action.metadata, "attributes")
        attr_type == LoweredText(Get(attributes, <<"type">>))
    IN IF attr_type = c_password THEN StrV(Credentials.password)
       ELSE IF AttributeLoop(HeuristicKeys, attributes, attr_type, Credentials).k /= "none"
       THEN AttributeLoop(HeuristicKeys, attributes, attr_type, Credentials)
       ELSE IF attr_type = c_email THEN StrV(Credentials.email)
       ELSE NoneV
FromSuggestedValue ==
    IF Truthy(MGet(call.action.metadata, "suggested_value"))
    THEN StrV(PyStr(MGet(call.action.metadata, "suggested_value"))) ELSE NoneV

\* the first of the values that is not None, None when all are
RECURSIVE FirstHit(_)
FirstHit(values) ==
    IF values = <<>> THEN NoneV
    ELSE IF Head(values).k /= "none" THEN Head(values)
    ELSE FirstHit(Tail(values))

\* C21: the value a fill types is the first hit of: the context value at
\* metadata.context_key, the non-empty input_text, the password when
\* expects_secret is set, the password or the email named by the label, the
\* attribute heuristics, metadata.suggested_value; otherwise None. So a
\* context value wins over input_text, and input_text over the credentials
C21_FirstHitOfTheOrder ==
    Resolved =>
        /\ answer.step = FirstHit(<<FromContext, FromInputText, FromSecretFlag, FromLabel,
                                    FromAttributes, FromSuggestedValue>>)
        /\ FromContext.k /= "none" => answer.step = FromContext
        /\ (FromContext.k = "none" /\ FromInputText.k /= "none")
               => answer.step = call.action.input_text

\* a fill with an input_text, a password label and expects_secret typed the
\* value its context_key names
C21_Witness ==
    /\ Resolved
    /\ FromContext = StrV("42") /\ FromInputText = StrV("typed")
    /\ FromSecretFlag.k /= "none" /\ FromLabel.k /= "none"
    /\ answer.step = StrV("42")

\* the resolution reached the attribute heuristics: no context value, no
\* input_text, no expects_secret, no label hit
AtAttributeHeuristics ==
    /\ Resolved
    /\ FirstHit(<<FromContext, FromInputText, FromSecretFlag, FromLabel>>).k = "none"

\* one of the five attributes holds a password-like token
PasswordLikeAttribute ==
    \E i \in DOMAIN HeuristicKeys :
        LET value == Get(MGet(call.action.metadata, "attributes"), <<HeuristicKeys[i]>>)
        IN value.k = "chars"
           /\ (Contains(Lower(value.v), c_pass) \/ Contains(Lower(value.v), c_pwd))

\* C22: in the attribute heuristics a password-like token (pass, pwd) in
\* name, id, data-testid, aria-label or placeholder gives the password, even
\* if the same or another of these attributes contains "email"
C22_PasswordTokenBeforeEmail ==
    (AtAttributeHeuristics /\ PasswordLikeAttribute)
        => answer.step = StrV(Credentials.password)


\* ------------------------------------------------ the contexts of the runs
\* after is before with updates deep-merged into it: two mappings at a key
\* are merged key by key, any other pair is overwritten by the update, and
\* a key the update does not mention keeps its value
RECURSIVE IsDeepMerge(_, _, _)
IsDeepMerge(before, updates, after) ==
    /\ IsDict(after)
    /\ DOMAIN after.v = DOMAIN before.v \cup DOMAIN updates.v
    /\ \A key \in DOMAIN after.v :
          IF key \notin DOMAIN updates.v THEN after.v[key] = before.v[key]
          ELSE IF key \in DOMAIN before.v /\ IsDict(before.v[key]) /\ IsDict(updates.v[key])
          THEN IsDeepMerge(before.v[key], updates.v[key], after.v[key])
          ELSE after.v[key] = updates.v[key]

\* C23: the context after a custom action is the context before it with the
\* handler's context_updates deep-merged: mappings at the same key are merged
\* recursively, any other update overwrites, and keys the update does not
\* mention are left unchanged
C23_UpdatesAreDeepMerged ==
    merged.kind = "merge" => IsDeepMerge(merged.before, merged.updates, merged.after)

\* C24: right after a custom action stored its response r under
\* store_response_as = K, looking K up in the context as a dot-path yields r
C24_StoredResponseIsFound ==
    (merged.kind = "merge" /\ merged.store_as.k = "key" /\ merged.store_as.v /= <<"">>)
        => _lookup_context_value(merged.after, merged.store_as.v) = merged.response

\* the context of run q as a value
ContextOf(objects, q) == Unfold(objects, RefV(q), MaxDepth)

\* C25: a run starts with an empty context, and a step of one run leaves the
\* context of every other run as it was
C25_ContextsAreOwned ==
    [][/\ merged'.kind = "start" => merged'.after = EmptyDict
       /\ \A q \in Runs :
             (contexts[q] /= 0 /\ merged'.run /= q)
                 => /\ contexts'[q] = contexts[q]
                    /\ ContextOf(heap', contexts[q]) = ContextOf(heap, contexts[q])]_vars
\* two runs are under way, one has written to its context, and the other has
\* just written something else to its own
C25_Witness ==
    /\ merged.kind = "merge"
    /\ \A q \in Runs : contexts[q] /= 0 /\ ContextOf(heap, contexts[q]) /= EmptyDict
    /\ ContextOf(heap, contexts[1]) /= ContextOf(heap, contexts[2])


\* ---------------------------------------------------------- render_template
\* t[i..j] is one placeholder: {{, a non-empty text without braces, }}
IsPlaceholder(t, i, j) ==
    /\ i >= 1 /\ j <= Len(t) /\ j >= i + 4
    /\ t[i] = "{" /\ t[i + 1] = "{" /\ t[j - 1] = "}" /\ t[j] = "}"
    /\ \A k \in (i + 2)..(j - 2) : t[k] \notin Braces
\* the value the placeholder t[i..j] names
Resolve(t, i, j, variables) == _lookup(variables, PathOf(SubSeq(t, i + 2, j - 2)))
\* t from position i on with each resolvable placeholder replaced by the
\* string form of its value and every other character kept
RECURSIVE Interpolated(_, _, _)
Interpolated(t, i, variables) ==
    IF i > Len(t) THEN <<>>
    ELSE IF \E j \in i..Len(t) : IsPlaceholder(t, i, j)
    THEN LET j == CHOOSE j \in i..Len(t) : IsPlaceholder(t, i, j)
         IN (IF Resolve(t, i, j, variables) = NoneV THEN SubSeq(t, i, j)
             ELSE StrChars(Resolve(t, i, j, variables)))
            \o Interpolated(t, j + 1, variables)
    ELSE <<t[i]>> \o Interpolated(t, i + 1, variables)
\* result is template rendered by the placeholder rule
RECURSIVE Rendered(_, _, _)
Rendered(template, variables, result) ==
    CASE template.k = "chars" ->
            IF IsPlaceholder(template.v, 1, Len(template.v))
            THEN result = (IF Resolve(template.v, 1, Len(template.v), variables) = NoneV
                           THEN template
                           ELSE Resolve(template.v, 1, Len(template.v), variables))
            ELSE result = CharsV(Interpolated(template.v, 1, variables))
      [] template.k = "dict" ->
            /\ result.k = "dict" /\ DOMAIN result.v = DOMAIN template.v
            /\ \A key \in DOMAIN template.v :
                  Rendered(template.v[key], variables, result.v[key])
      [] template.k = "list" ->
            /\ result.k = "list" /\ Len(result.v) = Len(template.v)
            /\ \A n \in 1..Len(template.v) : Rendered(template.v[n], variables, result.v[n])
      [] OTHER -> result = template

\* C26: render_template never raises and follows the placeholder rule: a
\* string that is exactly one placeholder gives the looked-up value itself,
\* placeholders among other text are replaced by the string form of their
\* values, an unresolvable placeholder keeps its text, and mappings and lists
\* are rendered element by element
C26_PlaceholderRule ==
    (call.fn = "render_template" /\ answer /= Pending)
        => /\ answer.raised = NoExc
           /\ Rendered(call.template, call.variables, answer.step)
\* a rendered string in which one placeholder was replaced and another,
\* unresolvable one kept its text
C26_Witness ==
    /\ call.fn = "render_template" /\ answer /= Pending
    /\ call.template.k = "chars" /\ answer.step.k = "chars"
    /\ Len(FindIter(call.template.v, 1)) = 2
    /\ answer.step /= call.template
    /\ Contains(answer.step.v, <<"{", "{", "x", "}", "}">>)


\* ------------------------------------------------- actions of unknown type
\* C27: a stored action whose type is none of click, fill, select, wait is
\* run like a custom action: parsing the routine does not fail on it, and the
\* finished run has one result per action, the unknown one included
C27_UnknownTypeRunsAsCustom ==
    \A i \in 1..Len(actions) :
        actions[i].type \notin {"click", "fill", "select", "wait", "custom"}
            => /\ raised.cls /= "ValidationError"
               /\ pc = "returned" => (Len(results) = Len(actions) /\ results[i].type = actions[i].type)


\* ------------------------------------------------------- the late cleanup
\* C28: the cleanup of a session removes no registry entry but that
\* session's own, and shuts no other browser down: an entry that maps to
\* another session, a newer one under the same key included, stays
C28_CleanupKeepsNewerSession ==
    [][last'.kind \in {"cleanup_removed", "cleanup"}
          => /\ \A key \in DOMAIN _SESSIONS :
                   _SESSIONS[key] /= last'.session
                       => key \in DOMAIN _SESSIONS' /\ _SESSIONS'[key] = _SESSIONS[key]
             /\ \A m \in DOMAIN browsers :
                   m /= last'.session => browsers'[m].shutdowns = browsers[m].shutdowns]_vars


\* --------------------------------------------------------- the failure flow
\* the requests sent by the step just taken
NewDispatches(before, after) == SubSeq(after, Len(before) + 1, Len(after))
\* the failure flow named by an action's metadata
FailureFlowOf(action) == _coerce_int(MGet(action.metadata, "failure_flow_id"))

\* C29: one invoke_flow call dispatches at most two requests: one when the
\* primary invocation succeeds or names no failure flow, and exactly one
\* more, to the failure flow, when the primary ends with another status and
\* failure_flow_id is set; a failing failure flow triggers nothing further
C29_FallbackAtMostOnce ==
    [][index' = index + 1 =>
          /\ Len(NewDispatches(dispatches, dispatches')) <= 2
          /\ (Len(invocations') > Len(invocations)
              /\ invocations'[Len(invocations')].dispatched) =>
                 /\ invocations'[Len(invocations')].result.status = "success"
                        => Len(NewDispatches(dispatches, dispatches')) = 1
                 /\ ~Truthy(FailureFlowOf(actions[index + 1]))
                        => Len(NewDispatches(dispatches, dispatches')) = 1
                 /\ (invocations'[Len(invocations')].result.status /= "success"
                     /\ Truthy(FailureFlowOf(actions[index + 1]))
                     /\ _get_flow(User.id, FailureFlowOf(actions[index + 1]).v).raised = NoExc)
                        => /\ Len(NewDispatches(dispatches, dispatches')) = 2
                           /\ dispatches'[Len(dispatches')].flow_id
                                  = FailureFlowOf(actions[index + 1]).v
                           /\ ~dispatches'[Len(dispatches')].wait_for_completion]_vars
\* a primary invocation failed, its failure flow was invoked and timed out,
\* and nothing more was sent
C29_Witness ==
    /\ Len(invocations) = 1 /\ invocations[1].result.status /= "success"
    /\ index = 1 /\ Truthy(FailureFlowOf(actions[1]))
    /\ Len(dispatches) = 2
    /\ dispatches[2].flow_id = FailureFlowOf(actions[1]).v
    /\ dispatches[2].outcome.kind = "timeout"


\* ------------------------------------------------------ interleaved appends
\* C30: the commit of an append loses nothing: every action stored before it,
\* the one another append committed meanwhile included, is still stored at
\* its place after it, and the list is longer
C30_NoAppendIsLost ==
    [][\A c \in Clients, routine_id \in RequestedIds :
          (Answered(c, "append", routine_id) /\ reply'.status = 200)
              => /\ Len(StoredList(routine_id)') > Len(StoredList(routine_id))
                 /\ \A j \in 1..Len(StoredList(routine_id)) :
                       StoredList(routine_id)'[j] = StoredList(routine_id)[j]]_vars

====
